---------------------------- MODULE Spec2Model ----------------------------
(***************************************************************************)
(* A model of the Spec IR generator: the orchestration hook, the           *)
(* Orchestrator, the Pipeline, BaseAgent's generate/review feedback cycle, *)
(* the provider gateway (callAnthropic / callOpenAI with the rate limiter) *)
(* and the localStorage checkpoint (saveState / loadState / clearState).   *)
(*                                                                         *)
(* Text is a sequence of tokens; a token is a record [c, ty, n, run].  JS   *)
(* runs each handler to its next await: `cpu` names the run that is inside *)
(* a synchronous section; nothing else moves until it reaches an await.    *)
(***************************************************************************)
EXTENDS Integers, Sequences, FiniteSets, TLC

(***************************** bounds *************************************)
\* runs (Orchestrator instances) one behaviour creates
MaxRuns == 2
\* largest maxFeedbackCycles a configuration carries
MaxCycles == 2
\* reviewer rejections one behaviour of Spec / SpecResume sees, over all
\* artifacts and runs (SpecCycle allows MaxCycles of them)
MaxRejections == 1
\* gateway calls a behaviour of SpecGateway starts
MaxCalls == 2
\* saveState calls a behaviour of SpecStore makes
MaxSaves == 2
\* responses answered with a backoff wait one behaviour of Spec / SpecResume sees
MaxRetried == 1
\* runs of Spec that may start from the configuration form; the later ones resume
MaxFreshStarts == 1
\* artifacts in a list handed to saveState in SpecStore
MaxSaved == 2
\* largest attempt number calculateBackoffDelay is called with in SpecBackoff
MaxAttempt == 8
\* longest reviewer text, in tokens, handed to parseReviewResult in SpecReview
MaxText == 3
\* clarification requests the agents of one behaviour of SpecQuestion make
MaxQuestions == 1

(************************ program constants *******************************)
maxRetries == 5
baseDelayMs == 2000
maxDelayMs == 120000
RetryBufferMs == 500
NumStages == 6

NoHint == 0 - 1

RunIds == 1..MaxRuns

(***************************** text ***************************************)
Ch(x) == [c |-> x, ty |-> "", n |-> 0, run |-> 0]
\* the text a provider generates for artifact type ty in cycle n of run r
Body(ty, n, r) == [c |-> "body", ty |-> ty, n |-> n, run |-> r]

SP == Ch(" ")
NL == Ch("\n")
\* the three-backquote code fence
FENCE == Ch("fence")
SPECWORD == Ch("spec")
WORD == Ch("word")
APPROVED == Ch("APPROVED")
NEEDS_REVISION == Ch("NEEDS_REVISION")

IsSpace(t) == t \in {SP, NL}
IsWordChar(t) == t \in {SPECWORD, WORD}

RECURSIVE TrimStart(_)
TrimStart(s) == IF s # <<>> /\ IsSpace(Head(s)) THEN TrimStart(Tail(s)) ELSE s

RECURSIVE TrimEnd(_)
TrimEnd(s) ==
  IF s # <<>> /\ IsSpace(s[Len(s)]) THEN TrimEnd(SubSeq(s, 1, Len(s) - 1)) ELSE s

Trim(s) == TrimEnd(TrimStart(s))

StartsWith(s, p) == Len(s) >= Len(p) /\ SubSeq(s, 1, Len(p)) = p
EndsWith(s, p) == Len(s) >= Len(p) /\ SubSeq(s, Len(s) - Len(p) + 1, Len(s)) = p
Drop(s, k) == SubSeq(s, k + 1, Len(s))
DropLast(s, k) == SubSeq(s, 1, Len(s) - k)

RECURSIVE DropWordChars(_)
DropWordChars(s) ==
  IF s # <<>> /\ IsWordChar(Head(s)) THEN DropWordChars(Tail(s)) ELSE s

DropOptNL(s) == IF s # <<>> /\ Head(s) = NL THEN Tail(s) ELSE s
DropLastOptNL(s) == IF s # <<>> /\ s[Len(s)] = NL THEN DropLast(s, 1) ELSE s

\* BaseAgent.cleanSpecContent: trim, strip an opening and a closing fence, trim
cleanSpecContent(content) ==
  LET cleaned == Trim(content)
      opened == IF StartsWith(cleaned, <<FENCE, SPECWORD>>)
                  THEN DropOptNL(Drop(cleaned, 2))
                ELSE IF StartsWith(cleaned, <<FENCE>>)
                  THEN DropOptNL(DropWordChars(Drop(cleaned, 1)))
                ELSE cleaned
      closed == IF EndsWith(opened, <<FENCE>>)
                  THEN DropLastOptNL(DropLast(opened, 1))
                ELSE opened
  IN Trim(closed)

NoFeedbackMsg == <<Ch("Reviewer requested changes but did not provide specific feedback.")>>
UnparseableMsg == <<Ch("Unable to parse reviewer response.")>>

\* String.prototype.replace with a string pattern: the first occurrence only
RECURSIVE RemoveFirst(_, _)
RemoveFirst(s, t) ==
  IF s = <<>> THEN <<>>
  ELSE IF Head(s) = t THEN Tail(s)
  ELSE <<Head(s)>> \o RemoveFirst(Tail(s), t)

\* a parse that would look for the markers without trimming the text
parseReviewResultNoTrim(response) ==
  IF StartsWith(response, <<APPROVED>>)
    THEN [approved |-> TRUE, feedback |-> <<>>]
  ELSE IF StartsWith(response, <<NEEDS_REVISION>>)
    THEN LET feedback == Trim(RemoveFirst(response, NEEDS_REVISION))
         IN [approved |-> FALSE,
             feedback |-> IF feedback # <<>> THEN feedback ELSE NoFeedbackMsg]
  ELSE [approved |-> FALSE,
        feedback |-> IF Trim(response) # <<>> THEN Trim(response) ELSE UnparseableMsg]

\* a parse that would leave the marker in the feedback
parseReviewResultKeepsMarker(response) ==
  LET trimmed == Trim(response)
  IN IF StartsWith(trimmed, <<APPROVED>>)
       THEN [approved |-> TRUE, feedback |-> <<>>]
     ELSE [approved |-> FALSE,
           feedback |-> IF trimmed # <<>> THEN trimmed ELSE UnparseableMsg]

\* a parse that would use one fallback sentence for both kinds of empty feedback
parseReviewResultOneFallback(response) ==
  LET trimmed == Trim(response)
  IN IF StartsWith(trimmed, <<APPROVED>>)
       THEN [approved |-> TRUE, feedback |-> <<>>]
     ELSE LET feedback == IF StartsWith(trimmed, <<NEEDS_REVISION>>)
                            THEN Trim(RemoveFirst(trimmed, NEEDS_REVISION))
                            ELSE trimmed
          IN [approved |-> FALSE,
              feedback |-> IF feedback # <<>> THEN feedback ELSE NoFeedbackMsg]

\* parseReviewResult: the verdict and the feedback read from the reviewer text
parseReviewResult(response) ==
  LET trimmed == Trim(response)
  IN IF StartsWith(trimmed, <<APPROVED>>)
       THEN [approved |-> TRUE, feedback |-> <<>>]
     ELSE IF StartsWith(trimmed, <<NEEDS_REVISION>>)
       THEN LET feedback == Trim(RemoveFirst(trimmed, NEEDS_REVISION))
            IN [approved |-> FALSE,
                feedback |-> IF feedback # <<>> THEN feedback ELSE NoFeedbackMsg]
     ELSE [approved |-> FALSE,
           feedback |-> IF trimmed # <<>> THEN trimmed ELSE UnparseableMsg]

(*************************** the pipeline **********************************)
AGENT_ORDER == <<"product", "architect", "scrum", "developer", "tester", "devops">>

AGENT_OUTPUTS ==
  [product |-> <<"contract">>,
   architect |-> <<"module", "infrastructure", "data", "decisions">>,
   scrum |-> <<"tasks">>,
   developer |-> <<"types", "events", "interface", "function">>,
   tester |-> <<"tests">>,
   devops |-> <<"pipeline">>]

\* BaseAgent.getOutputIRTypes of the agent createAgent builds for agentType
getOutputIRTypes(agentType) == AGENT_OUTPUTS[agentType]

\* the output types of the stage at 0-based index i
StageTypes(i) == getOutputIRTypes(AGENT_ORDER[i + 1])

Range(s) == {s[k] : k \in 1..Len(s)}
Types(arts) == {arts[k].irType : k \in 1..Len(arts)}

\* Map.set on an insertion-ordered Map held as a sequence of its values
MapSet(m, a) ==
  IF \E k \in 1..Len(m) : m[k].irType = a.irType
    THEN [k \in 1..Len(m) |-> IF m[k].irType = a.irType THEN a ELSE m[k]]
    ELSE Append(m, a)

RECURSIVE MapFrom(_)
MapFrom(arts) ==
  IF arts = <<>> THEN <<>> ELSE MapSet(MapFrom(DropLast(arts, 1)), arts[Len(arts)])

(************************* models and credentials *************************)
Models == {"claude-sonnet-4-5", "claude-opus-4-5", "chatgpt-5-2"}

getModelProvider(model) ==
  IF model \in {"claude-sonnet-4-5", "claude-opus-4-5"} THEN "anthropic" ELSE "openai"

\* an absent (undefined or empty) key is "", a present one is the secret
NoKey == ""
KeySets == [anthropic : {NoKey, "sk-ant"}, openai : {NoKey, "sk-oai"}]

KeyOf(apiKeys, provider) ==
  IF provider = "anthropic" THEN apiKeys.anthropic ELSE apiKeys.openai

\* a validation that would look at the executor model only
validateApiKeysExecutorOnly(apiKeys, executorModel, reviewerModel) ==
  (IF getModelProvider(executorModel) = "anthropic" /\ apiKeys.anthropic = NoKey
     THEN <<"Anthropic API key is required for Claude models">> ELSE <<>>)
  \o
  (IF getModelProvider(executorModel) = "openai" /\ apiKeys.openai = NoKey
     THEN <<"OpenAI API key is required for ChatGPT models">> ELSE <<>>)

\* LLMClient.validateApiKeys: the list of error texts
validateApiKeys(apiKeys, executorModel, reviewerModel) ==
  LET executorProvider == getModelProvider(executorModel)
      reviewerProvider == getModelProvider(reviewerModel)
  IN (IF (executorProvider = "anthropic" \/ reviewerProvider = "anthropic")
          /\ apiKeys.anthropic = NoKey
        THEN <<"Anthropic API key is required for Claude models">> ELSE <<>>)
     \o
     (IF (executorProvider = "openai" \/ reviewerProvider = "openai")
          /\ apiKeys.openai = NoKey
        THEN <<"OpenAI API key is required for ChatGPT models">> ELSE <<>>)

(***************************** module name ********************************)
Verbs == {"build", "create", "implement", "develop"}
Articles == {"a", "an", "the"}
Suffixes == {"system", "service", "module", "application", "app"}
\* tokens made only of characters outside [a-z0-9]
Punct == {"!!!"}

\* the least suffix position j >= from with from <= Len(p), or 0
FirstSuffixFrom(p, from) ==
  LET js == {j \in from..Len(p) : p[j] \in Suffixes}
  IN IF js = {} THEN 0 ELSE CHOOSE j \in js : \A k \in js : j <= k

\* pattern 1 tried at verb position i: the captured tokens, or <<>> for no match
Pattern1At(p, i) ==
  LET withArticle == IF i + 1 <= Len(p) /\ p[i + 1] \in Articles
                       THEN FirstSuffixFrom(p, i + 3) ELSE 0
      without == FirstSuffixFrom(p, i + 2)
  IN IF withArticle # 0 THEN SubSeq(p, i + 2, withArticle - 1)
     ELSE IF without # 0 THEN SubSeq(p, i + 1, without - 1)
     ELSE <<>>

Pattern1(p) ==
  LET is == {i \in 1..Len(p) : p[i] \in Verbs /\ Pattern1At(p, i) # <<>>}
  IN IF is = {} THEN <<>>
     ELSE Pattern1At(p, CHOOSE i \in is : \A k \in is : i <= k)

Pattern2(p) ==
  LET j == FirstSuffixFrom(p, 2)
  IN IF j = 0 THEN <<>> ELSE SubSeq(p, 1, j - 1)

\* the captured words with their separating spaces
RECURSIVE Spaced(_)
Spaced(ws) ==
  IF Len(ws) <= 1 THEN ws ELSE <<Head(ws), " ">> \o Spaced(Tail(ws))

RECURSIVE DropSpaces(_)
DropSpaces(s) == IF s # <<>> /\ Head(s) = " " THEN DropSpaces(Tail(s)) ELSE s

\* replace(/\s+/g, '-')
RECURSIVE Dashed(_)
Dashed(s) ==
  IF s = <<>> THEN <<>>
  ELSE IF Head(s) = " " THEN <<"-">> \o Dashed(DropSpaces(s))
  ELSE <<Head(s)>> \o Dashed(Tail(s))

Slug(capture) == Dashed(SelectSeq(Spaced(capture), LAMBDA t : t \notin Punct))

\* Orchestrator.extractModuleName (sample names stay below 30 characters)
extractModuleName(prompt) ==
  IF Pattern1(prompt) # <<>> THEN Slug(Pattern1(prompt))
  ELSE IF Pattern2(prompt) # <<>> THEN Slug(Pattern2(prompt))
  ELSE <<"generated-module">>

Prompts ==
  {<<"build", "a", "todo", "app">>,
   <<"build", "a", "!!!", "system">>,
   <<"hello">>}

(****************************** errors ************************************)
Err(template, provider, attempt, status, texts) ==
  [template |-> template, provider |-> provider, attempt |-> attempt,
   status |-> status, texts |-> texts]

NoError == Err("", "", 0, 0, <<>>)
\* `${provider} rate limit exceeded after ${attempt} attempts. Please wait and try again.`
RateLimitExceeded(provider, attempt) ==
  Err("rate limit exceeded after N attempts", provider, attempt, 0, <<>>)
\* `${provider} API error: ${response.status} - ${errorMessage}`
ApiError(provider, status) == Err("API error: status - message", provider, 0, status, <<>>)
\* fetch itself rejects: the TypeError of the runtime
TransportError == Err("fetch failed", "", 0, 0, <<>>)
\* reading a property of null: the TypeError of the runtime
NullArtifactError == Err("Cannot read properties of null", "", 0, 0, <<>>)
\* keyErrors.join(', ')
KeyErrors(texts) == Err("key errors", "", 0, 0, texts)

\* the message states how many attempts were made
NamesAttemptCount(e) == e.attempt > 0

(************************** the rate limiter ******************************)
Min(a, b) == IF a <= b THEN a ELSE b

\* no error text is handed over: the parameter is undefined
NoMessage == "undefined"
RateLimitPhrases == {"rate limit", "rate_limit", "too many requests", "overloaded"}

\* isRateLimitError: 429, 529, or a rate-limit phrase in a message handed over
isRateLimitError(status, errorMessage) ==
  IF status = 429 THEN TRUE
  ELSE IF status = 529 THEN TRUE
  ELSE IF errorMessage # NoMessage THEN errorMessage \in RateLimitPhrases
  ELSE FALSE

\* parseRateLimitHeaders(...).retryAfterMs; retryAfter in seconds, NoHint = no header
parseRetryAfterMs(retryAfter) == IF retryAfter # NoHint THEN retryAfter * 1000 ELSE 0

\* Math.random() * 2 - 1, in thousandths
Jitters == {0 - 1000, 0, 1000}

\* a delay that would not be held under max
calculateBackoffDelayNoCap(attempt, base, max, retryAfterMs, rnd) ==
  IF retryAfterMs > 0
    THEN retryAfterMs + RetryBufferMs
    ELSE LET exponentialDelay == base * (2 ^ (attempt - 1))
             jitter == (exponentialDelay * 2 * rnd) \div 10000
         IN exponentialDelay + jitter

\* a delay that would take the hint without the buffer
calculateBackoffDelayNoBuffer(attempt, base, max, retryAfterMs, rnd) ==
  IF retryAfterMs > 0
    THEN Min(retryAfterMs, max)
    ELSE LET exponentialDelay == base * (2 ^ (attempt - 1))
             jitter == (exponentialDelay * 2 * rnd) \div 10000
         IN Min(exponentialDelay + jitter, max)

\* calculateBackoffDelay: the hinted delay plus a buffer, or the exponential
\* delay with its jitter, neither above max
calculateBackoffDelay(attempt, base, max, retryAfterMs, rnd) ==
  IF retryAfterMs > 0
    THEN Min(retryAfterMs + RetryBufferMs, max)
    ELSE LET exponentialDelay == base * (2 ^ (attempt - 1))
             jitter == (exponentialDelay * 2 * rnd) \div 10000
         IN Min(exponentialDelay + jitter, max)

(**************************** the providers *******************************)
Statuses == {200, 400, 401, 403, 429, 500, 529}
\* status 0: the fetch promise rejects, there is no HTTP response
TransportFailure == 0

\* a response: its status, the retry-after header (seconds), the seconds
\* named in the error body's message, both NoHint when absent, and the
\* rate-limit phrase of that message, NoMessage when it has none
Responses ==
  [status : {200, 400, 401, 403, 500, TransportFailure},
   retryAfter : {NoHint}, msgSeconds : {NoHint}, message : {NoMessage}]
  \cup
  [status : {429, 529, 500}, retryAfter : {NoHint, 5}, msgSeconds : {NoHint, 200},
   message : {NoMessage}]
  \cup
  [status : {400, 503}, retryAfter : {NoHint}, msgSeconds : {NoHint},
   message : {"rate limit"}]

\* the forms in which a provider hands back the body of a generation
GenOutputs(body) ==
  {<<body>>,
   <<FENCE, SPECWORD, NL, body, NL, FENCE>>,
   <<SP, FENCE, WORD, NL, body, NL, FENCE, NL>>}

ApprovingTexts == {<<APPROVED>>, <<NL, APPROVED, SP, WORD>>}
RejectingTexts ==
  {<<NEEDS_REVISION, NL, WORD>>, <<NEEDS_REVISION>>, <<WORD, SP, APPROVED>>, <<>>}

(*************************** the checkpoint *******************************)
STORAGE_KEYS == {"CONFIG", "PROGRESS", "ARTIFACTS", "MODULE_NAME"}

\* localStorage.getItem of a key never set
NULL == [kind |-> "null"]
Text(t) == [kind |-> "text", text |-> t]
Json(v) == [kind |-> "json", v |-> v]

EmptyStore == [k \in STORAGE_KEYS |-> NULL]

\* !str: null and the empty string are falsy; a JSON text is never empty
Falsy(item) == item = NULL \/ (item.kind = "text" /\ item.text = <<>>)

\* JSON.stringify of an artifact list: a Date becomes its ISO string, a null
\* entry stays null
JsonNull == [irType |-> "", content |-> <<>>, createdBy |-> "", createdAt |-> [iso |-> 0]]
ArtifactsToJson(artifacts) ==
  [k \in 1..Len(artifacts) |->
     [artifacts[k] EXCEPT !.createdAt = [iso |-> artifacts[k].createdAt.date]]]

\* a restore that reads the ISO string as local time, one unit off
RestoreDatesShifted(parsed) ==
  [k \in 1..Len(parsed) |->
     [parsed[k] EXCEPT !.createdAt = [date |-> parsed[k].createdAt.iso + 1]]]

\* loadState: artifact.createdAt = new Date(artifact.createdAt)
RestoreDates(parsed) ==
  [k \in 1..Len(parsed) |->
     [parsed[k] EXCEPT !.createdAt = [date |-> parsed[k].createdAt.iso]]]

\* a saveState that would write the configuration as it is, keys included
saveStateWithKeys(store, config, progress, artifacts, moduleName) ==
  [store EXCEPT !["CONFIG"] = Json(config),
                !["PROGRESS"] = Json(progress),
                !["ARTIFACTS"] = Json(ArtifactsToJson(artifacts)),
                !["MODULE_NAME"] = Text(moduleName)]

\* saveState: the store after the four setItem calls
saveState(store, config, progress, artifacts, moduleName) ==
  LET configWithoutKeys ==
        [prompt |-> config.prompt,
         executorModel |-> config.executorModel,
         reviewerModel |-> config.reviewerModel,
         maxFeedbackCycles |-> config.maxFeedbackCycles]
  IN [store EXCEPT !["CONFIG"] = Json(configWithoutKeys),
                   !["PROGRESS"] = Json(progress),
                   !["ARTIFACTS"] = Json(ArtifactsToJson(artifacts)),
                   !["MODULE_NAME"] = Text(moduleName)]

\* saveState when the n+1-th setItem throws (quota exceeded, storage
\* disabled): the first n items are written, the catch block logs, the rest
\* keep their old values
SetItemOrder == <<"CONFIG", "PROGRESS", "ARTIFACTS", "MODULE_NAME">>
saveStateThrows(store, config, progress, artifacts, moduleName, n) ==
  LET full == saveState(store, config, progress, artifacts, moduleName)
  IN [k \in STORAGE_KEYS |->
        IF \E i \in 1..n : SetItemOrder[i] = k THEN full[k] ELSE store[k]]

\* what loadState returns for "no state"
Absent == [present |-> FALSE]

\* loadState: null unless all four items are truthy, and null from the catch
\* when an entry of the parsed list is null (artifact.createdAt = ... throws),
\* else the parsed state
loadState(store) ==
  IF Falsy(store["CONFIG"]) \/ Falsy(store["PROGRESS"])
       \/ Falsy(store["ARTIFACTS"]) \/ Falsy(store["MODULE_NAME"])
    THEN Absent
  ELSE IF \E k \in 1..Len(store["ARTIFACTS"].v) : store["ARTIFACTS"].v[k] = JsonNull
    THEN Absent
    ELSE [present |-> TRUE,
          config |-> store["CONFIG"].v,
          progress |-> store["PROGRESS"].v,
          artifacts |-> RestoreDates(store["ARTIFACTS"].v),
          moduleName |-> store["MODULE_NAME"].text]

clearState(store) == EmptyStore

hasPersistedState(store) == store["CONFIG"] # NULL /\ store["PROGRESS"] # NULL

(***************************** the state **********************************)
VARIABLES
  store,       \* localStorage: key -> item
  hook,        \* useOrchestration's React state
  cpu,         \* the run inside a synchronous section, 0 when none is
  nruns,       \* Orchestrators constructed so far
  pc,          \* per run: where its run() / execute() stands
  orch,        \* per run: the Orchestrator's fields
  pipe,        \* per run: Pipeline.execute's locals and the AgentContext
  agent,       \* per run: BaseAgent.execute / generateWithFeedbackCycle locals
  gw,          \* per run: the gateway call in progress
  obs,         \* per run: what an observer of the run has seen
  rejections,  \* reviewer rejections so far
  calls,       \* gateway calls started (SpecGateway)
  retried,     \* responses answered with a backoff wait so far
  io           \* the last saveState arguments and loadState result (SpecStore)

vars == <<store, hook, cpu, nruns, pc, orch, pipe, agent, gw, obs, rejections, calls, retried, io>>

(***************************** the gateway ********************************)
GwIdle ==
  [pc |-> "idle", provider |-> "", purpose |-> "", irType |-> "", cycle |-> 0,
   attempt |-> 0, delay |-> 0, requests |-> 0, waits |-> 0, notified |-> 0,
   content |-> <<>>, error |-> NoError,
   \* the feedbackHistory list the prompt of this call was built from
   feedback |-> <<>>,
   \* for the observer: the status of the latest response of this call, and
   \* whether every response of this call so far was a rate-limit one
   lastStatus |-> 0 - 1, onlyRateLimited |-> TRUE,
   \* the response that the latest wait of this call answered, the message
   \* of the latest response, and the delay and attempt that onRateLimitWait
   \* was told before the latest wait (zeros when it was not called)
   waited |-> [status |-> 0 - 1, retryAfter |-> 0 - 1, msgSeconds |-> 0 - 1,
               message |-> NoMessage],
   lastMessage |-> NoMessage,
   told |-> [delayMs |-> 0, attempt |-> 0]]

KeyRequired(provider) ==
  KeyErrors(<<IF provider = "anthropic"
                THEN "Anthropic API key is required for Claude models"
                ELSE "OpenAI API key is required for ChatGPT models">>)

\* LLMClient.generate up to the first fetch of callAnthropic / callOpenAI
\* a gateway whose attempt counter would be shared by all calls
generateSharedAttempt(apiKeys, model, purpose, irType, cycle) ==
  LET provider == getModelProvider(model)
  IN IF KeyOf(apiKeys, provider) = NoKey
       THEN [GwIdle EXCEPT !.pc = "threw", !.provider = provider,
                           !.purpose = purpose, !.irType = irType, !.cycle = cycle,
                           !.error = KeyRequired(provider)]
       ELSE [GwIdle EXCEPT !.pc = "inflight", !.provider = provider,
                           !.purpose = purpose, !.irType = irType, !.cycle = cycle,
                           !.attempt = Min(1 + retried, maxRetries), !.requests = 1]

generate(apiKeys, model, purpose, irType, cycle) ==
  LET provider == getModelProvider(model)
  IN IF KeyOf(apiKeys, provider) = NoKey
       THEN [GwIdle EXCEPT !.pc = "threw", !.provider = provider,
                           !.purpose = purpose, !.irType = irType, !.cycle = cycle,
                           !.error = KeyRequired(provider)]
       ELSE [GwIdle EXCEPT !.pc = "inflight", !.provider = provider,
                           !.purpose = purpose, !.irType = irType, !.cycle = cycle,
                           !.attempt = 1, !.requests = 1]

Threw(g, e) == [g EXCEPT !.pc = "threw", !.error = e]
Sleep(g, delayMs, notify) ==
  [g EXCEPT !.pc = "sleeping", !.delay = delayMs, !.waits = @ + 1,
            !.notified = IF notify THEN @ + 1 ELSE @,
            !.told = IF notify THEN [delayMs |-> delayMs, attempt |-> g.attempt]
                               ELSE [delayMs |-> 0, attempt |-> 0]]

\* the retry delay a rate-limit response names: the header, overridden by
\* the seconds found in the error body's message
retryAfterOf(resp) ==
  IF resp.msgSeconds # NoHint THEN resp.msgSeconds * 1000
  ELSE parseRetryAfterMs(resp.retryAfter)

\* a loop that would retry every failure status, 401 and 403 included
HandleResponseRetryAuth(g, resp, rnd, content) ==
  IF resp.status = 200 THEN [g EXCEPT !.pc = "returned", !.content = content]
  ELSE IF g.attempt < maxRetries
    THEN Sleep(g, calculateBackoffDelay(g.attempt, baseDelayMs, maxDelayMs, 0, rnd), FALSE)
  ELSE Threw(g, ApiError(g.provider, resp.status))

\* a loop that would wait and retry without a ceiling on the attempts
HandleResponseNoCeiling(g, resp, rnd, content) ==
  IF resp.status = 200 THEN [g EXCEPT !.pc = "returned", !.content = content]
  ELSE IF resp.status \in {401, 403} THEN Threw(g, ApiError(g.provider, resp.status))
  ELSE Sleep(g, calculateBackoffDelay(g.attempt, baseDelayMs, maxDelayMs, 0, rnd), TRUE)

\* a loop that would take the provider's hint for the wait after a 5xx too
HandleResponseHintFor5xx(g, resp, rnd, content) ==
  IF resp.status = TransportFailure THEN Threw(g, TransportError)
  ELSE IF resp.status # 200 /\ resp.status \notin {401, 403}
          /\ (isRateLimitError(resp.status, NoMessage) \/ resp.status >= 500)
    THEN IF g.attempt < maxRetries
           THEN Sleep(g, calculateBackoffDelay(g.attempt, baseDelayMs, maxDelayMs,
                                                retryAfterOf(resp), rnd),
                      isRateLimitError(resp.status, NoMessage))
           ELSE Threw(g, IF isRateLimitError(resp.status, NoMessage)
                           THEN RateLimitExceeded(g.provider, g.attempt)
                           ELSE ApiError(g.provider, resp.status))
  ELSE IF resp.status # 200 THEN Threw(g, ApiError(g.provider, resp.status))
  ELSE [g EXCEPT !.pc = "returned", !.content = content]

\* one pass of the retry loop of callAnthropic / callOpenAI once fetch settled
HandleResponse(g, resp, rnd, content) ==
  IF resp.status = TransportFailure THEN Threw(g, TransportError)
  ELSE IF isRateLimitError(resp.status, NoMessage)
    THEN IF g.attempt < maxRetries
           THEN Sleep(g, calculateBackoffDelay(g.attempt, baseDelayMs, maxDelayMs,
                                                retryAfterOf(resp), rnd), TRUE)
           ELSE Threw(g, RateLimitExceeded(g.provider, g.attempt))
  ELSE IF resp.status # 200
    THEN IF resp.status \in {401, 403}
           THEN Threw(g, ApiError(g.provider, resp.status))
         ELSE IF resp.status >= 500 /\ g.attempt < maxRetries
           THEN Sleep(g, calculateBackoffDelay(g.attempt, baseDelayMs, maxDelayMs,
                                                0, rnd), FALSE)
         ELSE Threw(g, ApiError(g.provider, resp.status))
  ELSE [g EXCEPT !.pc = "returned", !.content = content]

\* a wait that would start over when its timer fires, issuing no request
RetryWaitsAgain(g) == g

\* after sleep(delayMs): the loop's next attempt issues its fetch
Retry(g) == [g EXCEPT !.pc = "inflight", !.attempt = @ + 1, !.requests = @ + 1]

\* what a provider may put in a 200 response to the call g
Contents(g, r) ==
  IF g.purpose = "executor" THEN GenOutputs(Body(g.irType, g.cycle, r))
  ELSE ApprovingTexts \cup RejectingTexts

\* the pending fetch of run r settles with resp, its body holding content
GatewayRespond(r, resp, rnd, content) ==
  /\ gw[r].pc = "inflight"
  /\ cpu = 0
  /\ content \in IF resp.status = 200 THEN Contents(gw[r], r) ELSE {<<>>}
  /\ LET g == HandleResponse(gw[r], resp, rnd, content)
     IN /\ gw' = [gw EXCEPT ![r] =
                    [g EXCEPT !.lastStatus = resp.status,
                              !.lastMessage = resp.message,
                              !.waited = IF g.pc = "sleeping" THEN resp ELSE @,
                              !.onlyRateLimited =
                                 @ /\ isRateLimitError(resp.status, NoMessage)]]
        /\ cpu' = IF g.pc \in {"returned", "threw"} THEN r ELSE 0
        /\ retried' = IF g.pc = "sleeping" THEN retried + 1 ELSE retried
  /\ UNCHANGED <<store, hook, nruns, pc, orch, pipe, agent, obs, rejections, calls, io>>

\* the backoff timer of run r fires
GatewayWake(r) ==
  /\ gw[r].pc = "sleeping"
  /\ cpu = 0
  /\ gw' = [gw EXCEPT ![r] = Retry(gw[r])]
  /\ UNCHANGED <<store, hook, cpu, nruns, pc, orch, pipe, agent, obs, rejections, calls, retried, io>>

(************************** runs: their records ***************************)
NoArtifact == [irType |-> "", content |-> <<>>, createdBy |-> "", createdAt |-> [date |-> 0]]

\* the SpecArtifact generateWithFeedbackCycle builds; run r stands for the clock
Artifact(irType, content, agentType, r) ==
  [irType |-> irType, content |-> content, createdBy |-> agentType,
   createdAt |-> [date |-> r]]

\* createInitialProgress, without the display-only fields (statusMessage,
\* currentAgent, totalStages, completedArtifacts)
createInitialProgress ==
  [state |-> "idle", currentStage |-> 0, currentArtifact |-> "",
   currentFeedbackCycle |-> 0, maxFeedbackCycles |-> 3, error |-> NoError]

NoResume == [present |-> FALSE]
ResumeState(artifacts, startFromStage, moduleName) ==
  [present |-> TRUE, artifacts |-> artifacts, startFromStage |-> startFromStage,
   moduleName |-> moduleName]

NoConfig ==
  [prompt |-> <<>>, executorModel |-> "", reviewerModel |-> "",
   apiKeys |-> [anthropic |-> NoKey, openai |-> NoKey], maxFeedbackCycles |-> 0]

OrchNone ==
  [config |-> NoConfig, moduleName |-> <<>>, progress |-> createInitialProgress,
   artifacts |-> <<>>, resumed |-> FALSE]

\* Orchestrator.constructor
NewOrchestrator(config, resumeState) ==
  LET progress == [createInitialProgress EXCEPT
                     !.maxFeedbackCycles = config.maxFeedbackCycles]
  IN IF resumeState.present
       THEN [config |-> config,
             moduleName |-> resumeState.moduleName,
             progress |-> [progress EXCEPT !.currentStage = resumeState.startFromStage],
             artifacts |-> resumeState.artifacts,
             resumed |-> TRUE]
       ELSE [config |-> config,
             moduleName |-> extractModuleName(config.prompt),
             progress |-> progress,
             artifacts |-> <<>>,
             resumed |-> FALSE]

PipeNone ==
  [i |-> 0, allArtifacts |-> <<>>, previousArtifacts |-> <<>>]

NoResult == [artifact |-> NoArtifact, cyclesUsed |-> 0, approved |-> FALSE, returned |-> FALSE]

AgentNone ==
  [artifacts |-> <<>>, idx |-> 0, cycle |-> 0, feedbackHistory |-> <<>>,
   artifact |-> NoArtifact, lastRaw |-> <<>>, genCalls |-> 0, reviewCalls |-> 0,
   result |-> NoResult]

ObsNone ==
  [firstGen |-> "", firstGenStage |-> 0 - 1, seeds |-> {}, resumeOf |-> 0 - 1,
   llmCalls |-> 0, stagesStarted |-> 0, onError |-> 0, failedStage |-> 0 - 1,
   outcome |-> "none"]

HookInit ==
  [state |-> "idle", persistedState |-> Absent, hasResumableState |-> FALSE,
   errorMessage |-> NoError, timers |-> 0, loadedStage |-> 0 - 1, ckptStage |-> 0 - 1,
   \* the question shown, the run whose onQuestion promise questionResolverRef
   \* resolves (0: none), and the questions asked so far
   currentQuestion |-> FALSE, questionResolver |-> 0, questions |-> 0]

\* Orchestrator.persistState
persistState(st, o) == saveState(st, o.config, o.progress, o.artifacts, o.moduleName)

\* Orchestrator.updateProgress reaching the hook: setState(newProgress.state);
\* every callback of a run (onStageStart, onArtifactStart, onFeedbackCycle,
\* onProgress, ...) ends there, so a run that goes on puts its own state back
HookProgress(h, progress) == [h EXCEPT !.state = progress.state]
\* the hook's onError callback: the message, and a timer that reloads the checkpoint
HookOnError(h, e) == [h EXCEPT !.errorMessage = e, !.timers = @ + 1]

NoActiveRun == \A r \in RunIds : pc[r] \in {"none", "done"}

(**************************** the hook ************************************)
\* useOrchestration.startOrchestration: build the Orchestrator and call run()
startOrchestration(config, resumeState, resumeOf) ==
  /\ cpu = 0
  /\ nruns < MaxRuns
  /\ LET r == nruns + 1
     IN /\ nruns' = r
        /\ hook' = [hook EXCEPT !.state = "running", !.errorMessage = NoError]
        \* orchestratorRef.current = orchestrator: the objects of the runs that
        \* have ended are unreachable from here on
        /\ orch' = [q \in RunIds |->
                      IF q = r THEN NewOrchestrator(config, resumeState)
                      ELSE IF pc[q] = "done" THEN OrchNone ELSE orch[q]]
        /\ pipe' = [q \in RunIds |-> IF pc[q] = "done" THEN PipeNone ELSE pipe[q]]
        /\ agent' = [q \in RunIds |-> IF pc[q] = "done" THEN AgentNone ELSE agent[q]]
        /\ gw' = [q \in RunIds |-> IF pc[q] = "done" THEN GwIdle ELSE gw[q]]
        /\ obs' = [q \in RunIds |->
                     IF q = r
                       THEN [ObsNone EXCEPT
                               !.outcome = "running",
                               !.resumeOf = resumeOf,
                               !.seeds = IF resumeState.present
                                           THEN Types(resumeState.artifacts) ELSE {}]
                     ELSE IF pc[q] = "done"
                       THEN [ObsNone EXCEPT !.outcome = obs[q].outcome]
                     ELSE obs[q]]
        /\ pc' = [pc EXCEPT ![r] = "run"]
        /\ cpu' = r
  /\ UNCHANGED <<store, rejections, calls, retried, io>>

\* App.handleStart: the configuration form is shown in the idle state
HandleStart(config) ==
  /\ hook.state = "idle"
  /\ startOrchestration(config, NoResume, 0 - 1)

\* App.handleResumeWithKeys: resume from the checkpoint the hook has loaded
HandleResumeWithKeys(apiKeys) ==
  /\ hook.persistedState.present
  /\ hook.hasResumableState
  /\ hook.state \in {"idle", "error"}
  /\ LET ps == hook.persistedState
     IN startOrchestration(
          [prompt |-> ps.config.prompt,
           executorModel |-> ps.config.executorModel,
           reviewerModel |-> ps.config.reviewerModel,
           apiKeys |-> apiKeys,
           maxFeedbackCycles |-> ps.config.maxFeedbackCycles],
          ResumeState(ps.artifacts, ps.progress.currentStage, ps.moduleName),
          hook.loadedStage)

\* useOrchestration.reset: the Start Over button, shown outside the idle state
Reset ==
  /\ cpu = 0
  /\ hook.state # "idle"
  /\ hook' = [hook EXCEPT !.state = "idle", !.errorMessage = NoError,
                          !.currentQuestion = FALSE]
  /\ UNCHANGED <<store, cpu, nruns, pc, orch, pipe, agent, gw, obs, rejections, calls, retried, io>>

\* useOrchestration.clearPersistedState
ClearPersistedState ==
  /\ cpu = 0
  /\ hook.state = "idle"
  /\ hook.hasResumableState
  /\ store' = clearState(store)
  /\ hook' = [hook EXCEPT !.persistedState = Absent, !.hasResumableState = FALSE]
  /\ UNCHANGED <<cpu, nruns, pc, orch, pipe, agent, gw, obs, rejections, calls, retried, io>>

\* the setTimeout of the hook's onError: reload the checkpoint for a resume
ErrorTimer ==
  /\ cpu = 0
  /\ hook.timers > 0
  /\ LET saved == loadState(store)
     IN hook' = IF hasPersistedState(store) /\ saved.present
                  THEN [hook EXCEPT !.timers = @ - 1, !.persistedState = saved,
                                    !.hasResumableState = TRUE,
                                    !.loadedStage = hook.ckptStage]
                  ELSE [hook EXCEPT !.timers = @ - 1]
  /\ UNCHANGED <<store, cpu, nruns, pc, orch, pipe, agent, gw, obs, rejections, calls, retried, io>>

(************************* Orchestrator.run *******************************)
\* run() up to the call of pipeline.execute: validate the keys, build the Map
OrchestratorRun(r) ==
  /\ pc[r] = "run" /\ cpu = r
  /\ LET o == orch[r]
         keyErrors == validateApiKeys(o.config.apiKeys, o.config.executorModel,
                                      o.config.reviewerModel)
     IN IF keyErrors # <<>>
          THEN LET progress == [o.progress EXCEPT !.state = "error",
                                                  !.error = KeyErrors(keyErrors)]
               IN /\ orch' = [orch EXCEPT ![r].progress = progress]
                  /\ hook' = HookOnError(HookProgress(hook, progress), KeyErrors(keyErrors))
                  /\ obs' = [obs EXCEPT ![r].outcome = "keyerror", ![r].onError = @ + 1]
                  /\ pc' = [pc EXCEPT ![r] = "done"]
                  /\ cpu' = 0
                  /\ UNCHANGED pipe
          ELSE LET progress == [o.progress EXCEPT !.state = "running"]
                   previousArtifacts == MapFrom(o.artifacts)
               IN /\ orch' = [orch EXCEPT ![r].progress = progress]
                  /\ hook' = HookProgress(hook, progress)
                  /\ pipe' = [pipe EXCEPT ![r] =
                                [i |-> o.progress.currentStage,
                                 allArtifacts |-> previousArtifacts,
                                 previousArtifacts |-> previousArtifacts]]
                  /\ pc' = [pc EXCEPT ![r] = "stageLoop"]
                  /\ UNCHANGED <<obs, cpu>>
  /\ UNCHANGED <<store, nruns, agent, gw, rejections, calls, retried, io>>

\* the Orchestrator's else branch once pipeline.execute returned a failure
OrchestratorFailed(r) ==
  /\ pc[r] = "pipeFailed" /\ cpu = r
  /\ LET o == orch[r]
     IN /\ store' = persistState(store, o)
        /\ hook' = HookOnError(HookProgress(hook, o.progress), o.progress.error)
        /\ obs' = [obs EXCEPT ![r].outcome = "failed", ![r].onError = @ + 1]
        /\ pc' = [pc EXCEPT ![r] = "done"]
        /\ cpu' = 0
  /\ UNCHANGED <<nruns, orch, pipe, agent, gw, rejections, calls, retried, io>>

\* generateZip resolved: the Orchestrator's success branch
ZipReady(r) ==
  /\ pc[r] = "zipping" /\ cpu = 0
  /\ LET progress == [orch[r].progress EXCEPT !.state = "complete",
                                              !.currentStage = NumStages]
     IN /\ orch' = [orch EXCEPT ![r].progress = progress]
        /\ hook' = [HookProgress(hook, progress) EXCEPT
                      !.hasResumableState = FALSE, !.persistedState = Absent]
  /\ obs' = [obs EXCEPT ![r].outcome = "completed"]
  /\ pc' = [pc EXCEPT ![r] = "done"]
  /\ UNCHANGED <<store, cpu, nruns, pipe, agent, gw, rejections, calls, retried, io>>

(************************* Pipeline.execute ********************************)
\* the head of the stage loop: onStageStart and createAgent, or the success return
StageLoop(r) ==
  /\ pc[r] = "stageLoop" /\ cpu = r
  /\ IF pipe[r].i < NumStages
       THEN LET stage == pipe[r].i + 1
                o == [orch[r] EXCEPT !.progress.currentStage = stage]
            IN /\ orch' = [orch EXCEPT ![r] = o]
               /\ store' = persistState(store, o)
               /\ agent' = [agent EXCEPT ![r] = [AgentNone EXCEPT !.idx = 1]]
               /\ obs' = [obs EXCEPT ![r].stagesStarted = @ + 1]
               /\ pc' = [pc EXCEPT ![r] = "artifactLoop"]
               /\ UNCHANGED cpu
       ELSE /\ pc' = [pc EXCEPT ![r] = "zipping"]
            /\ cpu' = 0
            /\ UNCHANGED <<orch, store, agent, obs>>
  /\ hook' = HookProgress(hook, orch[r].progress)
  /\ UNCHANGED <<nruns, pipe, gw, rejections, calls, retried, io>>

RECURSIVE MapSetAll(_, _)
MapSetAll(m, arts) ==
  IF arts = <<>> THEN m ELSE MapSetAll(MapSet(m, Head(arts)), Tail(arts))

\* agent.execute returned success: collect its artifacts, onStageComplete
StageDone(r) ==
  /\ pc[r] = "stageDone" /\ cpu = r
  /\ pipe' = [pipe EXCEPT
                ![r].allArtifacts = @ \o agent[r].artifacts,
                ![r].previousArtifacts = MapSetAll(@, agent[r].artifacts),
                ![r].i = @ + 1]
  /\ store' = persistState(store, orch[r])
  /\ agent' = [agent EXCEPT ![r] = AgentNone]
  /\ pc' = [pc EXCEPT ![r] = "stageLoop"]
  /\ hook' = HookProgress(hook, orch[r].progress)
  /\ UNCHANGED <<cpu, nruns, orch, gw, obs, rejections, calls, retried, io>>

(************************* BaseAgent.execute *******************************)
CurrentType(r) == StageTypes(pipe[r].i)[agent[r].idx]

\* a loop whose feedback list would live across the output types
ArtifactLoopKeepsFeedback(r) ==
  /\ pc[r] = "artifactLoop" /\ cpu = r
  /\ IF agent[r].idx <= Len(StageTypes(pipe[r].i))
       THEN /\ orch' = [orch EXCEPT ![r].progress.currentArtifact = CurrentType(r),
                                    ![r].progress.currentFeedbackCycle = 0]
            /\ agent' = [agent EXCEPT ![r].cycle = 1,
                                      ![r].artifact = NoArtifact,
                                      ![r].genCalls = 0,
                                      ![r].reviewCalls = 0]
            /\ pc' = [pc EXCEPT ![r] = "cycleLoop"]
       ELSE /\ pc' = [pc EXCEPT ![r] = "stageDone"]
            /\ UNCHANGED <<orch, agent>>
  /\ hook' = IF agent[r].idx <= Len(StageTypes(pipe[r].i))
              THEN HookProgress(hook, orch[r].progress) ELSE hook
  /\ UNCHANGED <<store, cpu, nruns, pipe, gw, obs, rejections, calls, retried, io>>

\* the head of the loop over the output types: onArtifactStart, or the return
ArtifactLoop(r) ==
  /\ pc[r] = "artifactLoop" /\ cpu = r
  /\ IF agent[r].idx <= Len(StageTypes(pipe[r].i))
       THEN /\ orch' = [orch EXCEPT ![r].progress.currentArtifact = CurrentType(r),
                                    ![r].progress.currentFeedbackCycle = 0]
            /\ agent' = [agent EXCEPT ![r].cycle = 1,
                                      ![r].feedbackHistory = <<>>,
                                      ![r].artifact = NoArtifact,
                                      ![r].genCalls = 0,
                                      ![r].reviewCalls = 0]
            /\ pc' = [pc EXCEPT ![r] = "cycleLoop"]
       ELSE /\ pc' = [pc EXCEPT ![r] = "stageDone"]
            /\ UNCHANGED <<orch, agent>>
  /\ hook' = IF agent[r].idx <= Len(StageTypes(pipe[r].i))
              THEN HookProgress(hook, orch[r].progress) ELSE hook
  /\ UNCHANGED <<store, cpu, nruns, pipe, gw, obs, rejections, calls, retried, io>>

\* after a gateway call was started: the thread is free unless it threw at once
CpuAfterCall(r, g) == IF g.pc = "threw" THEN r ELSE 0

\* the head of the cycle loop: the executor call, or the best-effort return
CycleLoopGuard(r) == agent[r].cycle <= orch[r].config.maxFeedbackCycles

\* a best-effort return that would report the loop counter it stopped at
BestEffortResultLoopCounter(r) ==
  [artifact |-> agent[r].artifact, cyclesUsed |-> agent[r].cycle,
   approved |-> FALSE, returned |-> TRUE]

\* the best-effort return of generateWithFeedbackCycle, after the loop
BestEffortResult(r) ==
  [artifact |-> agent[r].artifact,
   cyclesUsed |-> orch[r].config.maxFeedbackCycles,
   approved |-> FALSE, returned |-> TRUE]

\* buildExecutorPrompt: the part of the prompt made from feedbackHistory, one
\* "Cycle n Feedback" heading and text per entry, in the order of the list
buildExecutorPrompt(feedbackHistory) ==
  [k \in 1..Len(feedbackHistory) |->
     [cycle |-> feedbackHistory[k].cycle,
      reviewerFeedback |-> feedbackHistory[k].reviewerFeedback]]

CycleLoop(r) ==
  /\ pc[r] = "cycleLoop" /\ cpu = r
  /\ IF CycleLoopGuard(r)
       THEN LET g == [generate(orch[r].config.apiKeys, orch[r].config.executorModel,
                               "executor", CurrentType(r), agent[r].cycle)
                        EXCEPT !.feedback = agent[r].feedbackHistory]
            IN /\ orch' = [orch EXCEPT ![r].progress.currentFeedbackCycle = agent[r].cycle,
                                       ![r].progress.maxFeedbackCycles =
                                          orch[r].config.maxFeedbackCycles]
               /\ gw' = [gw EXCEPT ![r] = g]
               /\ agent' = [agent EXCEPT ![r].genCalls = @ + 1]
               /\ obs' = [obs EXCEPT
                            ![r].llmCalls = @ + 1,
                            ![r].firstGen = IF @ = "" THEN CurrentType(r) ELSE @,
                            ![r].firstGenStage = IF @ < 0 THEN pipe[r].i ELSE @]
               /\ pc' = [pc EXCEPT ![r] = "generating"]
               /\ cpu' = CpuAfterCall(r, g)
       ELSE /\ agent' = [agent EXCEPT ![r].result = BestEffortResult(r)]
            /\ pc' = [pc EXCEPT ![r] = "cycleReturn"]
            /\ UNCHANGED <<orch, gw, obs, cpu>>
  /\ hook' = HookProgress(hook, orch[r].progress)
  /\ UNCHANGED <<store, nruns, pipe, rejections, calls, retried, io>>

\* an executor return that would put the candidate in the context before its review
AfterGenerateExposes(r) ==
  /\ pc[r] = "generating" /\ cpu = r /\ gw[r].pc = "returned"
  /\ LET content == cleanSpecContent(gw[r].content)
         g == generate(orch[r].config.apiKeys, orch[r].config.reviewerModel,
                       "reviewer", CurrentType(r), agent[r].cycle)
     IN /\ agent' = [agent EXCEPT
                       ![r].artifact = Artifact(CurrentType(r), content,
                                                AGENT_ORDER[pipe[r].i + 1], r),
                       ![r].lastRaw = gw[r].content,
                       ![r].reviewCalls = @ + 1]
        /\ gw' = [gw EXCEPT ![r] = g]
        /\ cpu' = CpuAfterCall(r, g)
  /\ obs' = [obs EXCEPT ![r].llmCalls = @ + 1]
  /\ pc' = [pc EXCEPT ![r] = "reviewing"]
  /\ hook' = HookProgress(hook, orch[r].progress)
  /\ pipe' = [pipe EXCEPT ![r].previousArtifacts = MapSet(@, agent'[r].artifact)]
  /\ UNCHANGED <<store, nruns, orch, rejections, calls, retried, io>>

\* the executor call returned: clean the text, build the artifact, call the reviewer
AfterGenerate(r) ==
  /\ pc[r] = "generating" /\ cpu = r /\ gw[r].pc = "returned"
  /\ LET content == cleanSpecContent(gw[r].content)
         g == generate(orch[r].config.apiKeys, orch[r].config.reviewerModel,
                       "reviewer", CurrentType(r), agent[r].cycle)
     IN /\ agent' = [agent EXCEPT
                       ![r].artifact = Artifact(CurrentType(r), content,
                                                AGENT_ORDER[pipe[r].i + 1], r),
                       ![r].lastRaw = gw[r].content,
                       ![r].reviewCalls = @ + 1]
        /\ gw' = [gw EXCEPT ![r] = g]
        /\ cpu' = CpuAfterCall(r, g)
  /\ obs' = [obs EXCEPT ![r].llmCalls = @ + 1]
  /\ pc' = [pc EXCEPT ![r] = "reviewing"]
  /\ hook' = HookProgress(hook, orch[r].progress)
  /\ UNCHANGED <<store, nruns, orch, pipe, rejections, calls, retried, io>>

FeedbackEntry(cycle, irType, feedback, content) ==
  [cycle |-> cycle, artifactType |-> irType, reviewerFeedback |-> feedback,
   executorResponse |-> content]

\* a return that would hand back the text of the first cycle instead of the last
ApprovedResultFirstArtifact(r) ==
  [artifact |-> Artifact(CurrentType(r), cleanSpecContent(<<Body(CurrentType(r), 1, r)>>),
                         AGENT_ORDER[pipe[r].i + 1], r),
   cyclesUsed |-> agent[r].cycle, approved |-> TRUE, returned |-> TRUE]

\* the approved return of generateWithFeedbackCycle
ApprovedResult(r) ==
  [artifact |-> agent[r].artifact, cyclesUsed |-> agent[r].cycle,
   approved |-> TRUE, returned |-> TRUE]

\* the reviewer call returned: approve and return, or record the feedback
AfterReview(r) ==
  /\ pc[r] = "reviewing" /\ cpu = r /\ gw[r].pc = "returned"
  /\ LET reviewResult == parseReviewResult(gw[r].content)
     IN IF reviewResult.approved
          THEN /\ agent' = [agent EXCEPT ![r].result = ApprovedResult(r)]
               /\ pc' = [pc EXCEPT ![r] = "cycleReturn"]
               /\ UNCHANGED rejections
          ELSE /\ agent' = [agent EXCEPT
                              ![r].feedbackHistory =
                                 Append(@, FeedbackEntry(agent[r].cycle, CurrentType(r),
                                                         reviewResult.feedback,
                                                         agent[r].artifact.content)),
                              ![r].cycle = @ + 1]
               /\ pc' = [pc EXCEPT ![r] = "cycleLoop"]
               /\ rejections' = rejections + 1
  /\ gw' = [gw EXCEPT ![r] = GwIdle]
  /\ hook' = HookProgress(hook, orch[r].progress)
  /\ UNCHANGED <<store, cpu, nruns, orch, pipe, obs, calls, retried, io>>

\* an artifact completion that would not write the checkpoint
CycleReturnNoSave(r) ==
  /\ pc[r] = "cycleReturn" /\ cpu = r
  /\ LET a == agent[r].result.artifact
     IN /\ orch' = [orch EXCEPT ![r].artifacts = Append(@, a)]
        /\ pipe' = [pipe EXCEPT ![r].previousArtifacts = MapSet(@, a)]
        /\ agent' = [agent EXCEPT ![r].artifacts = Append(@, a),
                                  ![r].idx = @ + 1,
                                  ![r].cycle = 0,
                                  ![r].artifact = NoArtifact,
                                  ![r].lastRaw = <<>>,
                                  ![r].genCalls = 0,
                                  ![r].reviewCalls = 0,
                                  ![r].result = NoResult]
  /\ pc' = [pc EXCEPT ![r] = "artifactLoop"]
  /\ hook' = HookProgress(hook, orch[r].progress)
  /\ UNCHANGED <<store, cpu, nruns, gw, obs, rejections, calls, retried, io>>

\* generateWithFeedbackCycle returned: push, onArtifactComplete, context.set
\* With a null artifact both lists get the null, `artifact.fileName` in the
\* Orchestrator's onArtifactComplete throws before its persistState, execute's
\* catch returns the failure and the pipeline's failure branch reports it.
CycleReturn(r) ==
  /\ pc[r] = "cycleReturn" /\ cpu = r
  /\ LET a == agent[r].result.artifact
         o == [orch[r] EXCEPT !.artifacts = Append(@, a)]
         f == [o EXCEPT !.progress.state = "error",
                        !.progress.error = NullArtifactError]
     IN IF a = NoArtifact
          THEN /\ orch' = [orch EXCEPT ![r] = f]
               /\ store' = persistState(store, f)
               /\ agent' = [agent EXCEPT ![r].artifacts = Append(@, a)]
               /\ hook' = [HookOnError(HookProgress(hook, f.progress), NullArtifactError)
                             EXCEPT !.ckptStage = pipe[r].i]
               /\ obs' = [obs EXCEPT ![r].onError = @ + 1,
                                     ![r].failedStage = pipe[r].i]
               /\ pc' = [pc EXCEPT ![r] = "pipeFailed"]
               /\ UNCHANGED pipe
          ELSE /\ orch' = [orch EXCEPT ![r] = o]
               /\ store' = persistState(store, o)
               /\ pipe' = [pipe EXCEPT ![r].previousArtifacts = MapSet(@, a)]
               /\ agent' = [agent EXCEPT ![r].artifacts = Append(@, a),
                                         ![r].idx = @ + 1,
                                         ![r].cycle = 0,
                                         ![r].artifact = NoArtifact,
                                         ![r].lastRaw = <<>>,
                                         ![r].genCalls = 0,
                                         ![r].reviewCalls = 0,
                                         ![r].result = NoResult]
               /\ pc' = [pc EXCEPT ![r] = "artifactLoop"]
               /\ hook' = HookProgress(hook, orch[r].progress)
               /\ UNCHANGED obs
  /\ UNCHANGED <<cpu, nruns, gw, rejections, calls, retried, io>>

\* a catch that would drop the error and go round the cycle loop again
AgentCatchRetries(r) ==
  /\ pc[r] \in {"generating", "reviewing"} /\ cpu = r /\ gw[r].pc = "threw"
  /\ gw' = [gw EXCEPT ![r] = GwIdle]
  /\ pc' = [pc EXCEPT ![r] = "cycleLoop"]
  /\ UNCHANGED <<store, hook, cpu, nruns, orch, pipe, agent, obs, rejections, calls,
                 retried, io>>

\* a gateway call threw: execute's catch, then the pipeline's failure branch
\* with the Orchestrator's onError callback
AgentCatch(r) ==
  /\ pc[r] \in {"generating", "reviewing"} /\ cpu = r /\ gw[r].pc = "threw"
  /\ LET o == [orch[r] EXCEPT !.progress.state = "error",
                              !.progress.error = gw[r].error]
     IN /\ orch' = [orch EXCEPT ![r] = o]
        /\ store' = persistState(store, o)
        /\ hook' = [HookOnError(HookProgress(hook, o.progress), gw[r].error)
                      EXCEPT !.ckptStage = pipe[r].i]
  /\ obs' = [obs EXCEPT ![r].onError = @ + 1, ![r].failedStage = pipe[r].i]
  /\ gw' = [gw EXCEPT ![r] = GwIdle]
  /\ pc' = [pc EXCEPT ![r] = "pipeFailed"]
  /\ UNCHANGED <<cpu, nruns, pipe, agent, rejections, calls, retried, io>>

(************************ the specifications ******************************)
IoNone == [op |-> "none", saves |-> 0, saved |-> Absent, loaded |-> Absent,
           origin |-> [k \in STORAGE_KEYS |-> Absent]]

Init ==
  /\ store = EmptyStore
  /\ hook = HookInit
  /\ cpu = 0
  /\ nruns = 0
  /\ pc = [r \in RunIds |-> "none"]
  /\ orch = [r \in RunIds |-> OrchNone]
  /\ pipe = [r \in RunIds |-> PipeNone]
  /\ agent = [r \in RunIds |-> AgentNone]
  /\ gw = [r \in RunIds |-> GwIdle]
  /\ obs = [r \in RunIds |-> ObsNone]
  /\ rejections = 0
  /\ calls = 0
  /\ retried = 0
  /\ io = IoNone

FullConfigs ==
  [prompt : Prompts, executorModel : Models, reviewerModel : Models,
   apiKeys : KeySets, maxFeedbackCycles : 1..MaxCycles]

AllKeys == [anthropic |-> "sk-ant", openai |-> "sk-oai"]

\* the configurations the runs of Spec start with
RunConfigs ==
  {c \in FullConfigs :
     /\ c.executorModel = "claude-sonnet-4-5"
     /\ c.reviewerModel = "chatgpt-5-2"
     /\ \/ c.apiKeys = AllKeys /\ c.prompt = <<"build", "a", "todo", "app">>
           /\ c.maxFeedbackCycles = MaxCycles
        \/ c.apiKeys = AllKeys /\ c.prompt = <<"build", "a", "!!!", "system">>
           /\ c.maxFeedbackCycles = MaxCycles
        \/ (c.apiKeys.anthropic = NoKey) # (c.apiKeys.openai = NoKey)
           /\ c.prompt = <<"build", "a", "todo", "app">>
           /\ c.maxFeedbackCycles = MaxCycles}

\* the responses and the jitter the providers of Spec answer with
PipelineResponses ==
  {resp \in Responses : resp.retryAfter = NoHint /\ resp.msgSeconds = NoHint
                        /\ resp.status \in {200, 401, 429, 500}}
PipelineJitters == {0}

\* the provider's answer to run r under the budgets of the specification
Provider(r, maxRejections, maxRetried) ==
  /\ gw[r].pc = "inflight"
  /\ \E resp \in PipelineResponses, rnd \in PipelineJitters :
       /\ resp.status \in {200, 401} \/ retried < maxRetried
       /\ \E content \in IF resp.status = 200 THEN Contents(gw[r], r) ELSE {<<>>} :
            /\ (resp.status = 200 /\ gw[r].purpose = "reviewer"
                  /\ ~parseReviewResult(content).approved) => rejections < maxRejections
            /\ GatewayRespond(r, resp, rnd, content)

RunStep(r) ==
  \/ OrchestratorRun(r)
  \/ StageLoop(r)
  \/ ArtifactLoop(r)
  \/ CycleLoop(r)
  \/ AfterGenerate(r)
  \/ AfterReview(r)
  \/ CycleReturn(r)
  \/ AgentCatch(r)
  \/ StageDone(r)
  \/ OrchestratorFailed(r)
  \/ ZipReady(r)

\* the application used one run at a time: a first run from the form, then
\* resumes from the checkpoint; Start Over only once a run has ended
Next ==
  \/ \E config \in RunConfigs : nruns < MaxFreshStarts /\ HandleStart(config)
  \/ \E apiKeys \in KeySets : HandleResumeWithKeys(apiKeys)
  \/ NoActiveRun /\ Reset
  \/ ClearPersistedState
  \/ ErrorTimer
  \/ \E r \in RunIds : RunStep(r)
  \/ \E r \in RunIds : Provider(r, MaxRejections, MaxRetried)
  \/ \E r \in RunIds : GatewayWake(r)

Spec == Init /\ [][Next]_vars

(* The clarification pause. The product and tester agents, the callers of
   AgentCallbacks.onQuestion, ask before an artifact's first executor call
   and wait for the promise the hook returns. *)
AsksQuestions(r) == AGENT_ORDER[pipe[r].i + 1] \in {"product", "tester"}

\* an agent that would show its question and go on without awaiting the answer
AskQuestionNoWait(r) ==
  /\ pc[r] = "cycleLoop" /\ cpu = r
  /\ AsksQuestions(r) /\ agent[r].cycle = 1
  /\ hook.questions < MaxQuestions
  /\ hook' = [hook EXCEPT !.currentQuestion = TRUE, !.state = "paused",
                          !.questionResolver = r, !.questions = @ + 1]
  /\ UNCHANGED <<store, cpu, nruns, pc, orch, pipe, agent, gw, obs, rejections, calls, retried, io>>

\* await this.callbacks.onQuestion(question): the hook's onQuestion shows the
\* question, sets 'paused' and keeps the resolver; the run waits
AskQuestion(r) ==
  /\ pc[r] = "cycleLoop" /\ cpu = r
  /\ AsksQuestions(r) /\ agent[r].cycle = 1
  /\ hook.questions < MaxQuestions
  /\ hook' = [hook EXCEPT !.currentQuestion = TRUE, !.state = "paused",
                          !.questionResolver = r, !.questions = @ + 1]
  /\ pc' = [pc EXCEPT ![r] = "asking"]
  /\ cpu' = 0
  /\ UNCHANGED <<store, nruns, orch, pipe, agent, gw, obs, rejections, calls, retried, io>>

\* useOrchestration.answerQuestion: resolve the pending promise, if there is
\* one; the run goes on after its await
AnswerQuestion ==
  /\ cpu = 0
  /\ IF hook.questionResolver # 0
       THEN /\ hook' = [hook EXCEPT !.questionResolver = 0, !.currentQuestion = FALSE,
                                    !.state = "running"]
            /\ pc' = [pc EXCEPT ![hook.questionResolver] =
                                  IF @ = "asking" THEN "cycleLoop" ELSE @]
            /\ cpu' = IF pc[hook.questionResolver] = "asking"
                        THEN hook.questionResolver ELSE 0
       ELSE UNCHANGED <<hook, pc, cpu>>
  /\ UNCHANGED <<store, nruns, orch, pipe, agent, gw, obs, rejections, calls, retried, io>>

QuestionConfigs ==
  {c \in FullConfigs :
     /\ c.executorModel = "claude-sonnet-4-5"
     /\ c.reviewerModel = "chatgpt-5-2"
     /\ c.prompt = <<"build", "a", "todo", "app">>
     /\ c.apiKeys = AllKeys
     /\ c.maxFeedbackCycles = MaxCycles}

NextQuestion ==
  \/ \E config \in QuestionConfigs : nruns = 0 /\ HandleStart(config)
  \/ ErrorTimer
  \/ \E r \in RunIds : RunStep(r)
  \/ \E r \in RunIds : AskQuestion(r)
  \/ AnswerQuestion
  \/ \E r \in RunIds : Provider(r, MaxCycles, 0)

SpecQuestion == Init /\ [][NextQuestion]_vars

(* One run of the pipeline, started with any set of keys, with the reviewer
   free to reject every artifact up to the cycle limit and the providers
   answering 200 or 401. *)
CycleConfigs ==
  {c \in FullConfigs :
     /\ c.executorModel = "claude-sonnet-4-5"
     /\ c.reviewerModel = "chatgpt-5-2"
     /\ c.prompt = <<"build", "a", "todo", "app">>
     /\ c.apiKeys # AllKeys => c.maxFeedbackCycles = MaxCycles}

NextCycle ==
  \/ \E config \in CycleConfigs : nruns = 0 /\ HandleStart(config)
  \/ ErrorTimer
  \/ \E r \in RunIds : RunStep(r)
  \/ \E r \in RunIds : Provider(r, MaxCycles, 0)

SpecCycle == Init /\ [][NextCycle]_vars

(* One run started through the hook's startOrchestration with any number of
   feedback cycles from 0 up (OrchestrationConfig.maxFeedbackCycles is a
   number; only the form restricts it to 1..5), both keys given, the reviewer
   free to reject and the providers answering 200 or 401. *)
AnyCycleConfigs ==
  [prompt : {<<"build", "a", "todo", "app">>},
   executorModel : {"claude-sonnet-4-5"}, reviewerModel : {"chatgpt-5-2"},
   apiKeys : {AllKeys}, maxFeedbackCycles : 0..MaxCycles]

NextAnyCycles ==
  \/ \E config \in AnyCycleConfigs :
       nruns = 0 /\ startOrchestration(config, NoResume, 0 - 1)
  \/ ErrorTimer
  \/ \E r \in RunIds : RunStep(r)
  \/ \E r \in RunIds : Provider(r, MaxCycles, 0)

SpecAnyCycles == Init /\ [][NextAnyCycles]_vars

(* One run to its end under the scheduling the runtime gives: a continuation
   that is ready runs, every pending fetch settles and every backoff timer
   fires. The run has the largest number of feedback cycles; the providers
   answer 200, 401, 429 or 500, a 200 with the shortest body of its kind, at
   most MaxRetried answers lead to a wait and the reviewer rejects at most
   MaxRejections times. *)
TerseAnswer(r) == Len(gw[r].content) <= 1
ProviderLive(r) == Provider(r, MaxRejections, MaxRetried) /\ TerseAnswer(r)'

NextLive ==
  \/ \E config \in CycleConfigs :
       /\ config.maxFeedbackCycles = MaxCycles
       /\ nruns = 0 /\ HandleStart(config)
  \/ ErrorTimer
  \/ \E r \in RunIds : RunStep(r)
  \/ \E r \in RunIds : ProviderLive(r)
  \/ \E r \in RunIds : GatewayWake(r)

SpecLive ==
  /\ Init /\ [][NextLive]_vars
  /\ \A r \in RunIds : WF_vars(RunStep(r))
  /\ \A r \in RunIds : WF_vars(ProviderLive(r))
  /\ \A r \in RunIds : WF_vars(GatewayWake(r))

(* The gateway alone: calls of LLMClient.generate against providers that may
   answer anything, with any retry hint and any jitter. *)
GatewayCall(apiKeys, model, purpose) ==
  /\ calls < MaxCalls
  /\ gw[1].pc \in {"idle", "returned", "threw"}
  /\ gw' = [gw EXCEPT ![1] = generate(apiKeys, model, purpose, "contract", 1)]
  /\ calls' = calls + 1
  /\ cpu' = 0
  /\ UNCHANGED <<store, hook, nruns, pc, orch, pipe, agent, obs, rejections, retried, io>>

NextGateway ==
  \/ \E apiKeys \in KeySets, model \in Models, purpose \in {"executor", "reviewer"} :
       GatewayCall(apiKeys, model, purpose)
  \/ \E resp \in Responses, rnd \in Jitters :
       \E content \in IF resp.status = 200 THEN Contents(gw[1], 1) ELSE {<<>>} :
         GatewayRespond(1, resp, rnd, content)
  \/ GatewayWake(1)

SpecGateway == Init /\ [][NextGateway]_vars

(* The checkpoint store alone: saveState, loadState and clearState called
   with any arguments. *)
StoreConfigs ==
  {c \in FullConfigs : c.executorModel = "claude-sonnet-4-5"
                       /\ c.reviewerModel = "chatgpt-5-2"
                       /\ c.prompt = <<"build", "a", "todo", "app">>
                       /\ c.apiKeys.anthropic # NoKey
                       /\ c.maxFeedbackCycles = MaxCycles}

StoreProgress ==
  {[createInitialProgress EXCEPT
      !.state = st, !.currentStage = n,
      !.error = IF st = "error" THEN ApiError("anthropic", 401) ELSE NoError] :
     st \in {"running", "error"}, n \in {0, 1, NumStages}}

\* the artifacts of a run in the order the pipeline produces them
ProducedTypes ==
  StageTypes(0) \o StageTypes(1) \o StageTypes(2) \o StageTypes(3)
    \o StageTypes(4) \o StageTypes(5)
ProducerOf(ty) ==
  CHOOSE a \in Range(AGENT_ORDER) : ty \in Range(getOutputIRTypes(a))
PriorArtifacts(n) ==
  [k \in 1..n |-> Artifact(ProducedTypes[k], <<Body(ProducedTypes[k], 1, 0)>>,
                           ProducerOf(ProducedTypes[k]), 0)]

StoreArtifacts == {PriorArtifacts(n) : n \in 0..MaxSaved}
StoreNames == {extractModuleName(p) : p \in Prompts}

\* the arguments of one saveState call
SaveCall(config, progress, artifacts, moduleName) ==
  [present |-> TRUE, config |-> config, progress |-> progress,
   artifacts |-> artifacts, moduleName |-> moduleName]

SaveState(config, progress, artifacts, moduleName) ==
  /\ io.saves < MaxSaves
  /\ store' = saveState(store, config, progress, artifacts, moduleName)
  /\ io' = [op |-> "save", saves |-> io.saves + 1,
            saved |-> SaveCall(config, progress, artifacts, moduleName),
            loaded |-> Absent,
            origin |-> [k \in STORAGE_KEYS |->
                          SaveCall(config, progress, artifacts, moduleName)]]
  /\ UNCHANGED <<hook, cpu, nruns, pc, orch, pipe, agent, gw, obs, rejections, calls, retried>>

\* a saveState call in which the setItem after the first n throws
SaveStateThrows(config, progress, artifacts, moduleName, n) ==
  /\ io.saves < MaxSaves
  /\ store' = saveStateThrows(store, config, progress, artifacts, moduleName, n)
  /\ io' = [op |-> "savethrows", saves |-> io.saves + 1,
            saved |-> Absent, loaded |-> Absent,
            origin |-> [k \in STORAGE_KEYS |->
                          IF \E i \in 1..n : SetItemOrder[i] = k
                            THEN SaveCall(config, progress, artifacts, moduleName)
                            ELSE io.origin[k]]]
  /\ UNCHANGED <<hook, cpu, nruns, pc, orch, pipe, agent, gw, obs, rejections, calls, retried>>

\* saveState called with what the loadState just before returned
SaveLoaded ==
  /\ io.op = "load" /\ io.loaded.present
  /\ store' = saveState(store, io.loaded.config, io.loaded.progress,
                        io.loaded.artifacts, io.loaded.moduleName)
  /\ io' = [op |-> "resave", saves |-> io.saves, saved |-> io.saved,
            loaded |-> io.loaded, origin |-> [k \in STORAGE_KEYS |-> io.loaded],
            before |-> store]
  /\ UNCHANGED <<hook, cpu, nruns, pc, orch, pipe, agent, gw, obs, rejections, calls, retried>>

LoadState ==
  /\ io.op # "load"
  /\ io' = [op |-> "load", saves |-> io.saves, saved |-> io.saved,
            loaded |-> loadState(store), origin |-> io.origin]
  /\ UNCHANGED <<store, hook, cpu, nruns, pc, orch, pipe, agent, gw, obs, rejections, calls, retried>>

ClearState ==
  /\ io.op # "clear"
  /\ store' = clearState(store)
  /\ io' = [op |-> "clear", saves |-> io.saves, saved |-> Absent, loaded |-> Absent,
            origin |-> [k \in STORAGE_KEYS |-> Absent]]
  /\ UNCHANGED <<hook, cpu, nruns, pc, orch, pipe, agent, gw, obs, rejections, calls, retried>>

NextStore ==
  \/ \E config \in StoreConfigs, progress \in StoreProgress,
        artifacts \in StoreArtifacts, moduleName \in StoreNames :
       SaveState(config, progress, artifacts, moduleName)
  \/ LoadState
  \/ SaveLoaded
  \/ ClearState

SpecStore == Init /\ [][NextStore]_vars

(* the checkpoint store when a setItem may throw *)
NextPartial ==
  \/ \E config \in StoreConfigs, progress \in StoreProgress,
        artifacts \in StoreArtifacts, moduleName \in StoreNames :
       SaveState(config, progress, artifacts, moduleName)
  \/ \E config \in StoreConfigs, progress \in StoreProgress,
        artifacts \in StoreArtifacts, moduleName \in StoreNames, n \in 0..3 :
       SaveStateThrows(config, progress, artifacts, moduleName, n)
  \/ LoadState
  \/ ClearState

SpecPartial == Init /\ [][NextPartial]_vars

(* startOrchestration(config, resumeState) called with the checkpoint of a
   run that stopped in stage n after producing m of that stage's types. *)
RECURSIVE TypesBefore(_)
TypesBefore(n) ==
  IF n = 0 THEN 0 ELSE Len(StageTypes(n - 1)) + TypesBefore(n - 1)

StartFromCheckpoint(config, n, m) ==
  /\ nruns = 0
  /\ startOrchestration(config,
                        ResumeState(PriorArtifacts(TypesBefore(n) + m), n,
                                    extractModuleName(config.prompt)),
                        n)

NextResume ==
  \/ \E config \in CycleConfigs, n \in 0..(NumStages - 1) :
       \E m \in 0..(Len(StageTypes(n)) - 1) :
         /\ config.maxFeedbackCycles = MaxCycles
         /\ config.apiKeys = AllKeys
         /\ StartFromCheckpoint(config, n, m)
  \/ ErrorTimer
  \/ \E r \in RunIds : RunStep(r)
  \/ \E r \in RunIds : Provider(r, MaxRejections, MaxRetried)
  \/ \E r \in RunIds : GatewayWake(r)

SpecResume == Init /\ [][NextResume]_vars

(****************************** properties ********************************)
Live(r) == pc[r] # "none" /\ orch[r] # OrchNone

\* C1: generateWithFeedbackCycle makes at most maxFeedbackCycles executor
\* calls and as many reviewer calls, a review only after its generation; and
\* when the reviewer approves at cycle k exactly k generations and k reviews
\* were made, cyclesUsed is k, approved is true, and the artifact holds the
\* normalised text of the k-th generation.
C1_FeedbackCycleBound ==
  \A r \in RunIds :
    Live(r) =>
      /\ agent[r].genCalls <= orch[r].config.maxFeedbackCycles
      /\ agent[r].reviewCalls <= agent[r].genCalls
      /\ agent[r].genCalls <= agent[r].reviewCalls + 1
      /\ (pc[r] = "cycleReturn" /\ agent[r].result.approved) =>
           LET k == agent[r].cycle
           IN /\ k \in 1..orch[r].config.maxFeedbackCycles
              /\ agent[r].genCalls = k
              /\ agent[r].reviewCalls = k
              /\ agent[r].result.cyclesUsed = k
              /\ agent[r].lastRaw \in GenOutputs(Body(CurrentType(r), k, r))
              /\ agent[r].result.artifact.irType = CurrentType(r)
              /\ agent[r].result.artifact.content = cleanSpecContent(agent[r].lastRaw)

C1_ApprovedAtLastCycle ==
  \E r \in RunIds :
    /\ pc[r] = "cycleReturn"
    /\ agent[r].result.approved
    /\ agent[r].result.cyclesUsed = MaxCycles
    /\ agent[r].genCalls = MaxCycles

\* the first type of stage n that is not among the types in seeds
FirstMissing(n, seeds) ==
  LET ts == StageTypes(n)
      missing == {k \in 1..Len(ts) : ts[k] \notin seeds}
  IN IF missing = {} THEN "" ELSE ts[CHOOSE k \in missing : \A j \in missing : k <= j]

\* C2: a run resumed with stage n and the artifacts persisted so far never
\* asks the executor for a type that was persisted, and its first executor
\* call is for the first type of stage n that was not.
C2_ResumeSkipsPersisted ==
  \A r \in RunIds :
    (Live(r) /\ orch[r].resumed) =>
      /\ pc[r] = "generating" => CurrentType(r) \notin obs[r].seeds
      /\ obs[r].firstGen # "" => obs[r].firstGen = FirstMissing(obs[r].resumeOf, obs[r].seeds)

\* C3: a run resumed from the checkpoint of a run that failed in stage S
\* makes its first executor call in stage S.
C3_ResumeReexecutesFailedStage ==
  \A r \in RunIds :
    (Live(r) /\ orch[r].resumed /\ obs[r].firstGenStage >= 0) =>
      obs[r].firstGenStage = obs[r].resumeOf

\* C4: at the first executor call for an artifact of stage i the context
\* holds every type of the stages before i and every type of stage i that
\* comes before it.
C4_ContextHoldsEarlierTypes ==
  \A r \in RunIds :
    (Live(r) /\ pc[r] = "generating" /\ agent[r].cycle = 1) =>
      \A j \in 0..pipe[r].i :
        \A k \in 1..Len(StageTypes(j)) :
          (j < pipe[r].i \/ k < agent[r].idx) =>
            StageTypes(j)[k] \in Types(pipe[r].previousArtifacts)

Secrets == {"sk-ant", "sk-oai"}

\* C5: nothing the checkpoint holds is a credential: the stored
\* configuration has no apiKeys field, and no stored text is a key.
C5_NoCredentialsStored ==
  /\ store["CONFIG"] # NULL =>
       /\ "apiKeys" \notin DOMAIN store["CONFIG"].v
       /\ store["CONFIG"].v.executorModel \notin Secrets
       /\ store["CONFIG"].v.reviewerModel \notin Secrets
  /\ store["PROGRESS"] # NULL =>
       Range(store["PROGRESS"].v.error.texts) \cap Secrets = {}
  /\ store["MODULE_NAME"] # NULL =>
       Range(store["MODULE_NAME"].text) \cap Secrets = {}

C5_RunWithKeysPersisted ==
  \E r \in RunIds :
    /\ orch[r].config.apiKeys = AllKeys
    /\ obs[r].stagesStarted > 0
    /\ store["CONFIG"] # NULL
    /\ store["ARTIFACTS"] # NULL /\ Len(store["ARTIFACTS"].v) > 0

\* C6: loadState right after saveState returns a state, with the artifacts,
\* the stage and the run name that were saved, also for an empty artifact
\* list and an empty run name.
C6_SaveThenLoad ==
  (io.op = "load" /\ io.saved.present) =>
    /\ io.loaded.present
    /\ io.loaded.artifacts = io.saved.artifacts
    /\ io.loaded.progress.currentStage = io.saved.progress.currentStage
    /\ io.loaded.moduleName = io.saved.moduleName

MissingCredential(config) ==
  \/ KeyOf(config.apiKeys, getModelProvider(config.executorModel)) = NoKey
  \/ KeyOf(config.apiKeys, getModelProvider(config.reviewerModel)) = NoKey

\* C7: a run whose configuration lacks the key of the executor's or the
\* reviewer's provider starts no stage and makes no call, and ends reporting
\* a key error.
C7_MissingKeyStopsRun ==
  \A r \in RunIds :
    (Live(r) /\ MissingCredential(orch[r].config)) =>
      /\ obs[r].llmCalls = 0
      /\ gw[r].requests = 0
      /\ obs[r].stagesStarted = 0
      /\ pc[r] \in {"run", "done"}
      /\ pc[r] = "done" =>
           /\ obs[r].outcome = "keyerror"
           /\ obs[r].onError = 1
           /\ orch[r].progress.state = "error"
           /\ orch[r].progress.error.template = "key errors"

C7_KeyErrorReported ==
  \E r \in RunIds :
    /\ Live(r) /\ pc[r] = "done"
    /\ orch[r].config.apiKeys.openai = NoKey
    /\ obs[r].outcome = "keyerror"

AuthStatuses == {401, 403}

\* C8: a response with status 401 or 403 ends the call with an error at
\* once, no wait and no further request following it; on the first attempt
\* the call has made one request and no wait.
C8_AuthFailsAtOnce ==
  \A r \in RunIds :
    gw[r].lastStatus \in AuthStatuses =>
      /\ gw[r].pc = "threw"
      /\ gw[r].error = ApiError(gw[r].provider, gw[r].lastStatus)
      /\ gw[r].requests = gw[r].attempt
      /\ gw[r].waits = gw[r].attempt - 1
      /\ gw[r].attempt = 1 => (gw[r].requests = 1 /\ gw[r].waits = 0)

C8_AuthOnFirstAttempt ==
  \E r \in RunIds :
    /\ gw[r].lastStatus \in AuthStatuses
    /\ gw[r].pc = "threw"
    /\ gw[r].requests = 1

Answered(g) == g.lastStatus >= 0

\* C9: one gateway call makes at most 5 requests and at most 4 waits; a
\* call that is rate-limited at every attempt never returns and fails with
\* exactly 5 requests made.
C9_AttemptCeiling ==
  \A r \in RunIds :
    /\ gw[r].requests <= 5
    /\ gw[r].waits <= 4
    /\ (Answered(gw[r]) /\ gw[r].onlyRateLimited) =>
         /\ gw[r].pc # "returned"
         /\ gw[r].pc = "threw" =>
              /\ gw[r].requests = 5
              /\ gw[r].error = RateLimitExceeded(gw[r].provider, 5)

C9_RateLimitedThroughout ==
  \E r \in RunIds :
    /\ Answered(gw[r]) /\ gw[r].onlyRateLimited
    /\ gw[r].pc = "threw"
    /\ gw[r].requests = 5 /\ gw[r].waits = 4

\* C10: a call that fails on its last attempt, be it on a rate-limit
\* response or on a 5xx response, fails with an error that names the number
\* of attempts made.
C10_ExhaustionNamesAttempts ==
  \A r \in RunIds :
    (/\ gw[r].pc = "threw"
     /\ gw[r].attempt = maxRetries
     /\ (isRateLimitError(gw[r].lastStatus, NoMessage) \/ gw[r].lastStatus >= 500)) =>
      NamesAttemptCount(gw[r].error)

(* calculateBackoffDelay alone: called twice in a row with any attempt
   number, any hint and any jitter. *)
BackoffHints == {0, 5000, maxDelayMs - RetryBufferMs, 200000}
NoCall == [attempt |-> 0, retryAfterMs |-> 0, rnd |-> 0, delay |-> 0]

Backoff(attempt, retryAfterMs, rnd) ==
  /\ io' = [op |-> "backoff", saves |-> 0, saved |-> Absent, loaded |-> Absent,
            prev |-> IF io.op = "backoff" THEN io.cur ELSE NoCall,
            cur |-> [attempt |-> attempt, retryAfterMs |-> retryAfterMs, rnd |-> rnd,
                     delay |-> calculateBackoffDelay(attempt, baseDelayMs, maxDelayMs,
                                                     retryAfterMs, rnd)]]
  /\ UNCHANGED <<store, hook, cpu, nruns, pc, orch, pipe, agent, gw, obs, rejections,
                 calls, retried>>

NextBackoff ==
  \E attempt \in 1..MaxAttempt, retryAfterMs \in BackoffHints, rnd \in Jitters :
    Backoff(attempt, retryAfterMs, rnd)

SpecBackoff == Init /\ [][NextBackoff]_vars

Backoffs == IF io.op = "backoff" THEN {io.prev, io.cur} \ {NoCall} ELSE {}

\* C11: calculateBackoffDelay never returns more than maxDelayMs, whatever
\* the attempt and the hint; and without a hint no delay of a later attempt
\* is below any delay of an earlier attempt, over the whole jitter range.
C11_BackoffCappedAndMonotone ==
  /\ \A c \in Backoffs : c.delay <= maxDelayMs
  /\ \A c \in Backoffs, d \in Backoffs :
       (c.retryAfterMs = 0 /\ d.retryAfterMs = 0 /\ c.attempt < d.attempt) =>
         c.delay <= d.delay

C11_CapReachedAfterJitter ==
  /\ io.op = "backoff"
  /\ io.prev # NoCall
  /\ io.prev.retryAfterMs = 0 /\ io.cur.retryAfterMs = 0
  /\ io.prev.attempt < io.cur.attempt
  /\ io.prev.rnd = 1000 /\ io.cur.rnd = 0 - 1000
  /\ io.cur.delay = maxDelayMs
  /\ io.prev.delay < maxDelayMs

\* the hints of a response, in milliseconds
HintsOf(resp) ==
  {h * 1000 : h \in {resp.retryAfter, resp.msgSeconds} \ {NoHint}}

BestEffort(r) ==
  pc[r] = "cycleReturn" /\ agent[r].result.returned /\ ~agent[r].result.approved

\* C13: when the reviewer rejected the artifact in every one of the
\* maxFeedbackCycles cycles, generateWithFeedbackCycle returns normally with
\* approved = false, cyclesUsed = maxFeedbackCycles and the artifact of the
\* last generation; the stage takes it like an approved one and goes on to
\* the next artifact, without an error.
C13_BestEffortAfterLastCycle ==
  [][\A r \in RunIds :
       BestEffort(r) =>
         LET max == orch[r].config.maxFeedbackCycles
             res == agent[r].result
         IN /\ res.cyclesUsed = max
            /\ agent[r].genCalls = max /\ agent[r].reviewCalls = max
            /\ Len(agent[r].feedbackHistory) = max
            /\ res.artifact.irType = CurrentType(r)
            /\ \E k \in 1..Len(res.artifact.content) :
                 res.artifact.content[k] = Body(CurrentType(r), max, r)
            /\ orch[r].progress.state # "error"
            /\ pc'[r] # pc[r] =>
                 /\ pc'[r] = "artifactLoop"
                 /\ orch'[r].artifacts = Append(orch[r].artifacts, res.artifact)
                 /\ agent'[r].artifacts = Append(agent[r].artifacts, res.artifact)
                 /\ orch'[r].progress.state # "error"
                 /\ obs'[r].onError = 0 /\ obs'[r].outcome = obs[r].outcome]_vars

C13_RejectedEveryCycle ==
  \E r \in RunIds :
    /\ BestEffort(r)
    /\ orch[r].config.maxFeedbackCycles = MaxCycles
    /\ agent[r].result.cyclesUsed = MaxCycles
    /\ Len(agent[r].feedbackHistory) = MaxCycles

(* parseReviewResult alone, on every reviewer text of at most MaxText
   tokens: blanks, line ends, words and the two markers in any order. *)
ReviewTexts ==
  UNION {[1..n -> {SP, NL, WORD, APPROVED, NEEDS_REVISION}] : n \in 0..MaxText}

ParseReview(response) ==
  /\ io' = [op |-> "review", saves |-> 0, saved |-> Absent, loaded |-> Absent,
            response |-> response, result |-> parseReviewResult(response)]
  /\ UNCHANGED <<store, hook, cpu, nruns, pc, orch, pipe, agent, gw, obs, rejections,
                 calls, retried>>

NextReview == \E response \in ReviewTexts : ParseReview(response)

SpecReview == Init /\ [][NextReview]_vars

\* the text without the white space around it
Strip(s) ==
  LET inked == {k \in 1..Len(s) : ~IsSpace(s[k])}
  IN IF inked = {} THEN <<>>
     ELSE SubSeq(s, CHOOSE k \in inked : \A j \in inked : k <= j,
                    CHOOSE k \in inked : \A j \in inked : j <= k)
\* the first thing written in the text, white space aside, is the marker
OpensWith(s, marker) == Strip(s) # <<>> /\ Strip(s)[1] = marker
Reviewed == io.op = "review"

\* C14, as stated: approved = true for every text that starts with the
\* APPROVED marker and approved = false for every text that does not.
C14_ApprovedIffStartsWithMarker ==
  Reviewed => (io.result.approved <=> StartsWith(io.response, <<APPROVED>>))

\* C14, amended: approved = true for every text whose first token after any
\* leading white space is the APPROVED marker, whatever follows it, and
\* approved = false for every other text.
C14_ApprovedIffOpensWithMarker ==
  Reviewed => (io.result.approved <=> OpensWith(io.response, APPROVED))

C14_ApprovedAfterWhiteSpace ==
  /\ Reviewed
  /\ Len(io.response) = 3
  /\ IsSpace(io.response[1]) /\ io.response[2] = APPROVED
  /\ io.response[3] = NEEDS_REVISION
  /\ io.result.approved

\* C15, as stated: for every text that starts with the NEEDS_REVISION marker
\* approved = false and the feedback is the text that follows the marker,
\* also when nothing follows it.
C15_FeedbackIsTextAfterMarker ==
  (Reviewed /\ StartsWith(io.response, <<NEEDS_REVISION>>)) =>
    /\ ~io.result.approved
    /\ io.result.feedback = Drop(io.response, 1)

\* C15, amended: for every text whose first token after any leading white
\* space is the NEEDS_REVISION marker, approved = false and the feedback is
\* the text that follows the marker without the white space around it, or
\* the sentence 'Reviewer requested changes but did not provide specific
\* feedback.' when nothing but white space follows.
C15_FeedbackIsStrippedTextAfterMarker ==
  (Reviewed /\ OpensWith(io.response, NEEDS_REVISION)) =>
    LET rest == Strip(Drop(Strip(io.response), 1))
    IN /\ ~io.result.approved
       /\ io.result.feedback = IF rest = <<>> THEN NoFeedbackMsg ELSE rest

C15_NothingAfterMarker ==
  /\ Reviewed
  /\ io.response = <<NEEDS_REVISION, NL>>
  /\ io.result.feedback = NoFeedbackMsg

Failed(r) ==
  gw[r].pc = "threw" \/ pc[r] = "pipeFailed" \/ obs[r].failedStage >= 0

\* C17: once a gateway call has failed terminally during a stage, neither the
\* agent nor the pipeline issues the call again, no later stage is started,
\* no further provider request is made, and the run can only end, with the
\* failed outcome.
C17_StageFailureHaltsRun ==
  [][\A r \in RunIds :
       Failed(r) =>
         /\ obs'[r].llmCalls = obs[r].llmCalls
         /\ obs'[r].stagesStarted = obs[r].stagesStarted
         /\ pipe'[r].i = pipe[r].i
         /\ gw'[r].pc \in {"idle", "threw"}
         /\ gw'[r].requests <= gw[r].requests
         /\ pc'[r] \in {pc[r], "pipeFailed", "done"}
         /\ pc'[r] = "done" => obs'[r].outcome = "failed"]_vars

C17_FailedInLaterStage ==
  \E r \in RunIds :
    /\ pc[r] = "done" /\ obs[r].outcome = "failed"
    /\ obs[r].failedStage = 2
    /\ obs[r].stagesStarted = 3
    /\ pipe[r].i = 2

\* C18: right after a stage failure has ended the run, the checkpoint is
\* still there: loadState returns a present state whose progress.state is
\* 'error', whose error is the failure message, and whose artifacts are
\* exactly those finalized before the failure; when the first generate call
\* of the stage failed there is no artifact of that stage among them.
C18_CheckpointRetainedAfterFailure ==
  [][\A r \in RunIds :
       (pc[r] = "pipeFailed" /\ pc'[r] = "done") =>
         LET st == loadState(store')
         IN /\ st.present
            /\ st.progress.state = "error"
            /\ st.progress.error # NoError
            /\ st.progress.error = hook'.errorMessage
            /\ st.artifacts = orch[r].artifacts
            /\ (agent[r].artifacts = <<>> /\ obs[r].resumeOf < 0) =>
                 \A k \in 1..Len(st.artifacts) :
                   st.artifacts[k].irType \notin Range(StageTypes(pipe[r].i))]_vars

\* the step of run r is an artifact completion, a stage start or a stage completion
ArtifactCompletes(r) == pc[r] = "cycleReturn" /\ pc'[r] = "artifactLoop"
StageStarts(r) == pc[r] = "stageLoop" /\ pc'[r] = "artifactLoop"
StageCompletes(r) == pc[r] = "stageDone" /\ pc'[r] = "stageLoop"

RunCompletes(r) == pc[r] = "zipping" /\ pc'[r] = "done"
\* the step is the explicit clear of the checkpoint by the user
ExplicitClear ==
  hook.state = "idle" /\ hook.hasResumableState /\ ~hook'.hasResumableState /\ pc' = pc

\* C20: right after a run has ended with the completed outcome, and right
\* after an explicit clear, the checkpoint is deleted: loadState returns
\* absent and hasPersistedState returns false.
C20_CheckpointDeletedOnCompletion ==
  [][((\E r \in RunIds : RunCompletes(r)) \/ ExplicitClear) =>
       (~loadState(store').present /\ ~hasPersistedState(store'))]_vars

(* The application with the Start Over button used at any time: the button
   is shown whenever the hook's state is not 'idle', a run in progress
   included, and the form it brings back starts another run. The executor's
   provider answers 200 or 401, the reviewer's 200 with an approval. *)
ResetConfigs ==
  {c \in FullConfigs :
     /\ c.executorModel = "claude-sonnet-4-5"
     /\ c.reviewerModel = "chatgpt-5-2"
     /\ c.prompt = <<"build", "a", "todo", "app">>
     /\ c.apiKeys = AllKeys
     /\ c.maxFeedbackCycles = MaxCycles}

NextReset ==
  \/ \E config \in ResetConfigs : HandleStart(config)
  \/ Reset
  \/ ErrorTimer
  \/ \E r \in RunIds : RunStep(r)
  \/ \E r \in RunIds : gw[r].purpose = "executor" /\ Provider(r, 0, 0)
  \/ \E r \in RunIds :
       /\ gw[r].purpose = "reviewer"
       /\ GatewayRespond(r, [status |-> 200, retryAfter |-> NoHint, msgSeconds |-> NoHint,
                          message |-> NoMessage],
                         0, <<APPROVED>>)

SpecReset == Init /\ [][NextReset]_vars

(* Failure and resume as the application does them: a fresh run, and after a
   failure the resume card, which starts the next run from the checkpoint the
   hook loaded. The providers answer 200 or 401, the reviewer approves. *)
\* The page is opened on the checkpoint that a run of an earlier session left
\* when it failed in stage n after finalizing m of that stage's types; the
\* hook's effect on mount loads it because its progress state is 'error'.
FailureCheckpoint(config, n, m) ==
  saveState(EmptyStore, config,
            [createInitialProgress EXCEPT
               !.state = "error", !.currentStage = n + 1,
               !.currentArtifact = StageTypes(n)[m + 1],
               !.currentFeedbackCycle = 1,
               !.maxFeedbackCycles = config.maxFeedbackCycles,
               !.error = ApiError("anthropic", 401)],
            PriorArtifacts(TypesBefore(n) + m),
            extractModuleName(config.prompt))

MountAfterFailure(config, n, m) ==
  /\ cpu = 0
  /\ nruns = 0
  /\ store = EmptyStore
  /\ store' = FailureCheckpoint(config, n, m)
  /\ LET saved == loadState(store')
     IN hook' = IF hasPersistedState(store') /\ saved.present
                     /\ saved.progress.state = "error"
                  THEN [hook EXCEPT !.persistedState = saved,
                                    !.hasResumableState = TRUE,
                                    !.loadedStage = n, !.ckptStage = n]
                  ELSE hook
  /\ UNCHANGED <<cpu, nruns, pc, orch, pipe, agent, gw, obs, rejections, calls, retried, io>>

NextRecover ==
  \/ \E config \in ResetConfigs : nruns = 0 /\ HandleStart(config)
  \/ \E config \in ResetConfigs, n \in 0..(NumStages - 1) :
       \E m \in 0..(Len(StageTypes(n)) - 1) : MountAfterFailure(config, n, m)
  \/ HandleResumeWithKeys(AllKeys)
  \/ ErrorTimer
  \/ \E r \in RunIds : RunStep(r)
  \/ \E r \in RunIds : Provider(r, 0, 0)

SpecRecover == Init /\ [][NextRecover]_vars

\* the runs whose provider request is on the network
Outstanding == {r \in RunIds : gw[r].pc = "inflight"}

\* C21: at most one provider request is outstanding at any time, whatever
\* the user does with the hook, a reset followed by a new start while the
\* earlier run has not finished included.
C21_OneOutstandingRequest == Cardinality(Outstanding) <= 1

\* no two artifacts of the list are of the same type
UniqueTypes(arts) ==
  \A j \in 1..Len(arts), k \in 1..Len(arts) : j # k => arts[j].irType # arts[k].irType

Exposed(r) ==
  Range(pipe[r].previousArtifacts) \cup Range(orch[r].artifacts)
    \cup (IF store["ARTIFACTS"].kind = "json"
            THEN Range(RestoreDates(store["ARTIFACTS"].v)) ELSE {})

\* C23: an artifact a run has generated appears in previousArtifacts, in the
\* Orchestrator's list or in the checkpoint only by the step that ends its
\* feedback cycle, approved or with all maxFeedbackCycles reviews made; a
\* candidate under review, or rejected with cycles left, never appears there.
C23_OnlyFinishedArtifactsExposed ==
  [][\A r \in RunIds :
       \A a \in Exposed(r)' \ Exposed(r) :
         a.createdAt = [date |-> r] =>
           /\ pc[r] = "cycleReturn"
           /\ agent[r].result.returned
           /\ a = agent[r].result.artifact
           /\ \/ agent[r].result.approved
              \/ /\ agent[r].reviewCalls = orch[r].config.maxFeedbackCycles
                 /\ Len(agent[r].feedbackHistory) = orch[r].config.maxFeedbackCycles
           /\ \A k \in 1..Len(agent[r].feedbackHistory) :
                agent[r].result.approved =>
                  agent[r].feedbackHistory[k].executorResponse # a.content]_vars

C23_RejectedCandidateHidden ==
  \E r \in RunIds :
    /\ pc[r] = "generating"
    /\ agent[r].cycle = 2
    /\ Len(agent[r].feedbackHistory) = 1
    /\ agent[r].artifact # NoArtifact
    /\ agent[r].artifact \notin Exposed(r)
    /\ Len(orch[r].artifacts) = 1

\* C24: a transport-level failure of a request (no HTTP response) is retried
\* with backoff and fails the gateway call only once the ceiling of 5
\* attempts is reached.
C24_TransportFailureRetried ==
  \A r \in RunIds :
    (gw[r].pc = "threw" /\ gw[r].lastStatus = TransportFailure) =>
      gw[r].attempt = maxRetries

\* the latest response of the call g was a rate-limit signal: status 429,
\* status 529, or a rate-limit phrase in the error body
RateLimitSignal(g) ==
  /\ g.lastStatus >= 0 /\ g.lastStatus # 200
  /\ g.lastStatus \in {429, 529} \/ g.lastMessage \in RateLimitPhrases

\* C25: a response with status 429, with status 529, or with another error
\* status and a rate-limit phrase in its body is treated as a rate-limit
\* signal: the call waits and retries, and fails only at the ceiling, with
\* the rate-limit error.
C25_RateLimitSignalsRetried ==
  \A r \in RunIds :
    (gw[r].pc = "threw" /\ RateLimitSignal(gw[r])) =>
      /\ gw[r].attempt = maxRetries
      /\ gw[r].error = RateLimitExceeded(gw[r].provider, maxRetries)

\* C26: every backoff wait of the gateway, after a rate-limit response and
\* after a 5xx response alike, is preceded by exactly one notification of the
\* observer, which carries the delay then slept and the attempt number.
C26_EveryWaitNotified ==
  \A r \in RunIds :
    /\ gw[r].notified = gw[r].waits
    /\ gw[r].pc = "sleeping" =>
         gw[r].told = [delayMs |-> gw[r].delay, attempt |-> gw[r].attempt]

\* the exponential delay of the attempt, with the jitter at rnd thousandths
Exponential(attempt, rnd) ==
  LET e == 2000 * (2 ^ (attempt - 1))
      d == e + (e * 2 * rnd) \div 10000
  IN IF d > 120000 THEN 120000 ELSE d
ServerError(status) == status >= 500 /\ status # 529

Resaved == io.op = "resave"
FromCall(l, c) ==
  /\ l.config.prompt = c.config.prompt
  /\ l.config.executorModel = c.config.executorModel
  /\ l.config.reviewerModel = c.config.reviewerModel
  /\ l.config.maxFeedbackCycles = c.config.maxFeedbackCycles
  /\ l.progress = c.progress
  /\ l.artifacts = c.artifacts
  /\ l.moduleName = c.moduleName

\* C27: saveState of what the loadState just before returned leaves the item
\* under every checkpoint key as it was, so that a second loadState returns
\* the same artifacts, stage index, run name and configuration.
C27_LoadThenSaveIdempotent ==
  Resaved =>
    /\ \A k \in STORAGE_KEYS : store[k] = io.before[k]
    /\ loadState(store).present
    /\ loadState(store).artifacts = io.loaded.artifacts
    /\ loadState(store).progress.currentStage = io.loaded.progress.currentStage
    /\ loadState(store).moduleName = io.loaded.moduleName
    /\ loadState(store).config = io.loaded.config

C27_ResavedWithArtifacts ==
  /\ Resaved
  /\ Len(io.loaded.artifacts) = MaxSaved
  /\ io.loaded.progress.currentStage = 1

\* C28: whatever saveState calls were made, one that stopped at a throwing
\* setItem included, a loadState returns nothing or the configuration,
\* progress, artifacts and run name of one single saveState call: one of the
\* calls that wrote the items read.
C28_NoMixedCheckpoint ==
  (io.op = "load" /\ io.loaded.present) =>
    \E k \in STORAGE_KEYS : io.origin[k] # Absent /\ FromCall(io.loaded, io.origin[k])


\* the executor calls of the runs
ExecutorCall(r) == gw[r].purpose = "executor" /\ gw[r].pc # "idle"

CallStarts(r) == gw[r].pc \in {"idle", "returned", "threw"} /\ gw'[r].pc = "inflight"

\* C31: every gateway call starts at attempt 1 with no wait behind it,
\* whatever the calls before it went through, and only its own five
\* requests exhaust it.
C31_RetryStatePerCall ==
  [][\A r \in RunIds :
       /\ CallStarts(r) =>
            /\ gw'[r].attempt = 1 /\ gw'[r].requests = 1
            /\ gw'[r].waits = 0 /\ gw'[r].delay = 0
       /\ gw'[r].attempt = gw'[r].requests
       /\ (gw'[r].pc = "threw" /\ gw'[r].error = RateLimitExceeded(gw'[r].provider, maxRetries))
            => (gw'[r].requests = maxRetries /\ gw'[r].waits = maxRetries - 1)]_vars

\* a second call exhausted by rate limits after the first call had waited
C31_SecondCallExhausted ==
  /\ calls = 2
  /\ gw[1].pc = "threw" /\ gw[1].requests = maxRetries
  /\ retried > gw[1].waits


\* a run in progress while the hook is idle: only reset leaves the hook idle
\* with a run in progress, so this run has just been abandoned
Abandoned(r) == hook.state = "idle" /\ pc[r] \notin {"none", "done"}
\* the step is one of run r's own code
StepOf(r) == pc'[r] # pc[r] \/ agent'[r] # agent[r] \/ pipe'[r] # pipe[r]

\* C32: a run abandoned by a reset of the hook starts no further provider
\* call, writes no further checkpoint and no longer changes the hook's state.
C32_AbandonedRunStops ==
  [][\A r \in RunIds :
       (Abandoned(r) /\ StepOf(r)) =>
         /\ ~CallStarts(r)
         /\ store' = store
         /\ hook'.state = hook.state]_vars


\* the clarification request of run r is pending
Pending(r) == hook.questionResolver = r

\* C33: while a run's clarification request is pending the run starts no
\* gateway call, moves to no other stage, artifact or cycle and writes no
\* checkpoint; the only step that moves it is the answer, which puts it back
\* at the point it paused at with everything as it was; and the hook leaves
\* 'paused' only by the answer to a pending request.
C33_PausedUntilAnswered ==
  [][/\ \A r \in RunIds :
          Pending(r) =>
            /\ gw'[r] = gw[r] /\ agent'[r] = agent[r] /\ pipe'[r] = pipe[r]
            /\ orch'[r] = orch[r] /\ store' = store
            /\ \/ Pending(r)' /\ pc'[r] = pc[r]
               \/ /\ hook'.questionResolver = 0 /\ hook'.state = "running"
                  /\ pc[r] = "asking" /\ pc'[r] = "cycleLoop" /\ cpu' = r
     /\ (hook.state = "paused" /\ hook'.state # "paused") => hook.questionResolver # 0]_vars

\* a question asked by the tester agent and answered, the run going on
C33_AnsweredInLaterStage ==
  \E r \in RunIds :
    /\ hook.questions = 1 /\ hook.questionResolver = 0
    /\ pipe[r].i = 4 /\ pc[r] = "generating"


\* the Orchestrator's list: the persisted list the run was resumed with,
\* followed by every artifact handed to onArtifactComplete, in that order
Finalized(r) == orch[r].artifacts
\* Pipeline.execute has returned its result, {success, artifacts: allArtifacts}
PipelineReturned(r) == pc[r] \in {"zipping", "pipeFailed"}
FirstGenerate(r) ==
  /\ pc[r] = "generating" /\ obs[r].llmCalls = 1 /\ gw[r].purpose = "executor"

\* C34: in a resumed run the context's artifact mapping at the first
\* generate call holds the persisted artifacts, one entry each, and the
\* artifact list of the run's result, completed or failed, is the persisted
\* list followed by the artifacts the run produced, in production order.
C34_ResumeSeedsContextAndResult ==
  \A r \in RunIds :
    orch[r].resumed =>
      /\ FirstGenerate(r) => pipe[r].previousArtifacts = Finalized(r)
      /\ PipelineReturned(r) => pipe[r].allArtifacts = Finalized(r)


\* C39: the artifact list of Pipeline.execute's failed result is the list of
\* all artifacts finalized so far, the one the checkpoint holds, those the
\* failing stage completed before the failure included.
C39_FailedResultHoldsFinalized ==
  \A r \in RunIds :
    pc[r] = "pipeFailed" =>
      /\ pipe[r].allArtifacts = Finalized(r)
      /\ store["ARTIFACTS"] = Json(ArtifactsToJson(Finalized(r)))


IsPrefix(s, t) == Len(s) <= Len(t) /\ \A k \in 1..Len(s) : s[k] = t[k]
Checkpointed == store["ARTIFACTS"] # NULL /\ store["PROGRESS"] # NULL
\* the first checkpoint of a run started from the form: a new history
FreshRunStarts ==
  cpu # 0 /\ ~orch[cpu].resumed /\ pc[cpu] = "stageLoop" /\ pipe[cpu].i = 0

\* C35: from one checkpoint to the next, within a run and from a failed run
\* to the run resumed from its checkpoint, the artifact list is extended (the
\* earlier list is a prefix of the later one) and the stage index does not
\* decrease.
C35_CheckpointsGrow ==
  [][(Checkpointed /\ Checkpointed' /\ ~FreshRunStarts) =>
       /\ IsPrefix(store["ARTIFACTS"].v, store'["ARTIFACTS"].v)
       /\ store["PROGRESS"].v.currentStage <= store'["PROGRESS"].v.currentStage]_vars

\* a resumed run has written a checkpoint with more artifacts than it started with
C35_ResumedRunCheckpointed ==
  \E r \in RunIds :
    /\ orch[r].resumed /\ pc[r] = "artifactLoop"
    /\ agent[r].artifacts # <<>>
    /\ store["ARTIFACTS"] = Json(ArtifactsToJson(Finalized(r)))

\* the declared output types of the six stages
DeclaredTypes == UNION {Range(StageTypes(i)) : i \in 0..(NumStages - 1)}
Holding(r, ty) == {k \in 1..Len(Finalized(r)) : Finalized(r)[k].irType = ty}

\* C36: a run that reports the completed outcome, fresh or resumed, holds
\* exactly one artifact of every declared output type of every stage.
C36_CompletedRunHoldsEveryType ==
  \A r \in RunIds :
    (Live(r) /\ obs[r].outcome = "completed") =>
      \A ty \in DeclaredTypes : Cardinality(Holding(r, ty)) = 1


\* C38: a run that fails in a stage delivers the Orchestrator's onError to
\* the observer exactly once, and neither onArtifactsComplete (delivered when
\* the run starts zipping) nor onZipReady (the completed outcome) at all.
C38_StageFailureNotifiedOnce ==
  \A r \in RunIds :
    (Live(r) /\ obs[r].failedStage >= 0) =>
      /\ pc[r] = "done" => obs[r].onError = 1
      /\ pc[r] # "zipping"
      /\ obs[r].outcome # "completed"


\* C40: whatever maxFeedbackCycles is, 0 included, generateWithFeedbackCycle
\* returns after at least one generate call with a non-null artifact, so
\* every artifact in the Orchestrator's list and in the checkpoint has
\* content that a generate call produced.
C40_EveryArtifactGenerated ==
  /\ \A r \in RunIds :
       Live(r) =>
         /\ pc[r] = "cycleReturn" =>
              /\ agent[r].genCalls >= 1
              /\ agent[r].result.artifact # NoArtifact
         /\ \A k \in 1..Len(Finalized(r)) :
              Finalized(r)[k] # NoArtifact /\ Finalized(r)[k].content # <<>>
  /\ Checkpointed =>
       \A k \in 1..Len(store["ARTIFACTS"].v) : store["ARTIFACTS"].v[k] # JsonNull


\* the run has ended: completed, or failed in a stage or on its keys
Terminated(r) ==
  pc[r] = "done" /\ obs[r].outcome \in {"completed", "failed", "keyerror"}
\* provider requests of run r so far, counted from above: one per generate
\* call and one per backoff wait
Requests(r) == obs[r].llmCalls + retried
RequestBound(r) ==
  Len(ProducedTypes) * orch[r].config.maxFeedbackCycles * 2 * maxRetries

=============================================================================
